---- MODULE Spec2Model ----
(***************************************************************************)
(* g3lobster: the agent registry (per-agent assignment gate, start / stop  *)
(* / restart, health loop) and the delegation run registry, modelled as    *)
(* the coroutines of one asyncio event loop.  Every action is the code     *)
(* that runs between two suspension points of one coroutine.               *)
(***************************************************************************)
EXTENDS Integers, Sequences, FiniteSets, TLC

(***************************************************************************)
(* Bounds of the model.                                                    *)
(***************************************************************************)
MaxCalls == 3        \* assign / delegate_task calls made in one behaviour
MaxRequests == 2     \* of these, the calls made while the health loop runs
MaxInst == 4         \* agent instances constructed in one behaviour
MaxTime == 2         \* last reading of the clock

Calls == 1..MaxCalls
NoCall == 0
NoInst == 0

(***************************************************************************)
(* Text.  A string is a sequence of tokens; SP is a whitespace character.  *)
(***************************************************************************)
SP == " "
NoneVal == <<"<None>">>

RECURSIVE lstrip(_)
lstrip(s) == IF s # <<>> /\ Head(s) = SP THEN lstrip(Tail(s)) ELSE s

RECURSIVE rstrip(_)
rstrip(s) == IF s # <<>> /\ s[Len(s)] = SP THEN rstrip(SubSeq(s, 1, Len(s) - 1)) ELSE s

\* str.strip()
strip(s) == rstrip(lstrip(s))

(***************************************************************************)
(* Floats: a finite number or NaN.  Every ordered comparison with NaN is   *)
(* false.                                                                  *)
(***************************************************************************)
Fl(n) == [nan |-> FALSE, v |-> n]
NaN == [nan |-> TRUE, v |-> 0]

FLeq(x, y) == ~x.nan /\ ~y.nan /\ x.v <= y.v
FGt(x, y) == ~x.nan /\ ~y.nan /\ x.v > y.v

\* f"{timeout_s:.1f}s"
FmtSeconds(x) == IF x.nan THEN "nans" ELSE ToString(x.v) \o ".0s"

(***************************************************************************)
(* Inputs.                                                                 *)
(***************************************************************************)
A == <<"a">>
B == <<"b">>
C == <<"c">>
\* an id that AGENT_ID_PATTERN rejects
Bad == <<"B!">>
\* ids with a persona on disk ("c" has none)
Personas == {A, B}
\* agent ids as callers pass them: blank, padded, and plain
AgentIdInputs == {<<>>, <<SP>>, A, <<SP, "a">>, B, <<"b", SP>>, C, Bad}
TaskInputs == {<<>>, <<SP>>, <<"do X", SP>>}
SessionInputs == {<<SP>>, <<"s1">>}
TimeoutInputs == {Fl(0 - 1), Fl(0), Fl(1), NaN}
\* the requests of the concurrent specification
ParentIds == {A, B}
ChildIds == {A, B, <<"b", SP>>, C, Bad}

(***************************************************************************)
(* SubagentRegistry: the run table is a sequence, the run id its index     *)
(* (uuid4 never repeats).                                                  *)
(***************************************************************************)
NoError == <<>>

\* register_run, the validation before any state is touched: the text of
\* the ValueError, or NoError
ValidationError(parent, child, task, psess, timeout) ==
    IF strip(parent) = <<>> THEN <<"parent_agent_id is required">>
    ELSE IF strip(child) = <<>> THEN <<"child_agent_id is required">>
    ELSE IF strip(task) = <<>> THEN <<"task is required">>
    ELSE IF strip(psess) = <<>> THEN <<"parent_session_id is required">>
    ELSE IF FLeq(timeout, Fl(0)) THEN <<"timeout_s must be greater than 0">>
    ELSE IF strip(parent) = strip(child) THEN <<"Circular delegation is not allowed">>
    ELSE NoError

\* the SubagentRun that register_run constructs
NewRun(parent, child, task, psess, timeout, t) ==
    [parent_agent_id |-> strip(parent),
     child_agent_id |-> strip(child),
     task |-> strip(task),
     parent_session_id |-> strip(psess),
     status |-> "registered",
     result |-> NoneVal,
     error |-> NoneVal,
     created_at |-> t,
     timeout_s |-> timeout]

\* register_run after validation: the table with the new run
register_run(rs, parent, child, task, psess, timeout, t) ==
    Append(rs, NewRun(parent, child, task, psess, timeout, t))

mark_running(rs, rid) ==
    IF rid \in DOMAIN rs THEN [rs EXCEPT ![rid].status = "running"] ELSE rs

complete_run_stale(rs, rid, result) ==
    [r \in DOMAIN rs |->
        IF r = rid
        THEN [rs[r] EXCEPT !.status = "completed", !.result = result, !.error = NoneVal]
        ELSE [rs[r] EXCEPT !.status = "registered", !.result = NoneVal, !.error = NoneVal]]

complete_run(rs, rid, result) ==
    IF rid \in DOMAIN rs
    THEN [rs EXCEPT ![rid].status = "completed", ![rid].result = result,
                    ![rid].error = NoneVal]
    ELSE rs

fail_run(rs, rid, error) ==
    IF rid \in DOMAIN rs
    THEN [rs EXCEPT ![rid].status = "failed",
                    ![rid].error = IF strip(error) # <<>> THEN strip(error)
                                   ELSE <<"Unknown failure">>]
    ELSE rs

ExpiredWhateverStatus(run, t) ==
    ~FLeq(Fl(t - run.created_at), run.timeout_s)

\* check_timeouts: the runs it picks
Expired(run, t) ==
    /\ run.status = "running"
    /\ ~FLeq(Fl(t - run.created_at), run.timeout_s)

TimedOut(rs, t) == {rid \in DOMAIN rs : Expired(rs[rid], t)}

\* check_timeouts: the table it leaves
check_timeouts(rs, t) ==
    [rid \in DOMAIN rs |->
        IF Expired(rs[rid], t)
        THEN [rs[rid] EXCEPT !.status = "timed_out",
                             !.error = <<"Timed out after ", FmtSeconds(rs[rid].timeout_s)>>]
        ELSE rs[rid]]

(***************************************************************************)
(* .subagent_runs.json: a JSON object of records, one per run id.  A JSON  *)
(* value is null, a string or a number (json.dumps writes a NaN as the     *)
(* token NaN and json.loads reads it back).                                *)
(***************************************************************************)
JNull == <<"null">>
JStr(s) == <<"string", s>>
JNum(x) == <<"number", x>>

\* json.dumps of an Optional[str]
JOpt(v) == IF v = NoneVal THEN JNull ELSE JStr(v)

\* json.loads of one value: None, a str or a float
PyVal(j) == IF j = JNull THEN NoneVal ELSE j[2]

RunStatusValues == {"registered", "running", "completed", "failed", "timed_out"}

\* record = asdict(run); record["status"] = run.status.value
asdict(run) ==
    [parent_agent_id |-> JStr(run.parent_agent_id),
     child_agent_id |-> JStr(run.child_agent_id),
     task |-> JStr(run.task),
     parent_session_id |-> JStr(run.parent_session_id),
     status |-> JStr(<<run.status>>),
     result |-> JOpt(run.result),
     error |-> JOpt(run.error),
     created_at |-> JNum(Fl(run.created_at)),
     timeout_s |-> JNum(run.timeout_s)]

save_status_name(rs) ==
    [rid \in DOMAIN rs |-> [asdict(rs[rid]) EXCEPT !.status = JStr(<<"RunStatus", rs[rid].status>>)]]

\* _save_to_disk: the payload written over the file
save_to_disk(rs) == [rid \in DOMAIN rs |-> asdict(rs[rid])]

\* a record that _load_from_disk skips
Skipped == [status |-> "skipped"]

\* _load_from_disk, one record: RunStatus(str(status)) raises for anything
\* but the value of a status; the other fields are taken as they are
LoadRun(raw) ==
    IF raw.status \in {JStr(<<v>>) : v \in RunStatusValues}
    THEN [parent_agent_id |-> PyVal(raw.parent_agent_id),
          child_agent_id |-> PyVal(raw.child_agent_id),
          task |-> PyVal(raw.task),
          parent_session_id |-> PyVal(raw.parent_session_id),
          status |-> PyVal(raw.status)[1],
          result |-> PyVal(raw.result),
          error |-> PyVal(raw.error),
          created_at |-> PyVal(raw.created_at).v,
          timeout_s |-> PyVal(raw.timeout_s)]
    ELSE Skipped

\* _load_from_disk: the table of a registry constructed over the file
load_from_disk(payload) == [rid \in DOMAIN payload |-> LoadRun(payload[rid])]

(***************************************************************************)
(* MemoryManager: one session of a SessionStore and the CompactionEngine   *)
(* over it.  A message is known by its number in the order of the appends; *)
(* compact_keep_ratio is counted in hundredths.                            *)
(***************************************************************************)
MaxThreshold == 5    \* largest compact_threshold configured
MaxAppends == 6      \* append_message calls in one behaviour

ThresholdInputs == 0..MaxThreshold
KeepRatioInputs == {0, 25, 50, 90, 100}

Max(a, b) == IF a >= b THEN a ELSE b
Min(a, b) == IF a <= b THEN a ELSE b

Floor100(n) == n \div 100

\* math.ceil of n hundredths
Ceil100(n) == (n + 99) \div 100

\* no entry in _message_counts
NoCount == 0 - 1

\* MemoryManager(compact_threshold, compact_keep_ratio) over a fresh directory;
\* tmp counts the temp files in the sessions directory and notes the Compaction
\* sections of MEMORY.md; kinds holds what each message is, by its number.
\* Of the last call: rewrite tells how it got on with rewrite_session, raised
\* whether it raised, compacted what maybe_compact returned, callback how
\* after_compact went, extracted whether the compacted span was searched for
\* candidates, hook whether maybe_extract_candidates was called, and mined
\* which paths called candidate_store.ingest, in order
NewStore(threshold, ratio) ==
    [compact_threshold |-> Max(1, threshold),
     compact_keep_ratio |-> Min(90, Max(5, ratio)),
     file |-> <<>>,
     tmp |-> 0,
     message_counts |-> NoCount,
     appended |-> 0,
     compactions |-> 0,
     rewrite |-> "skipped",
     raised |-> FALSE,
     kinds |-> <<>>,
     last |-> "none",
     compacted |-> FALSE,
     callback |-> "none",
     notes |-> 0,
     extracted |-> FALSE,
     hook |-> FALSE,
     mined |-> <<>>]

Message(m) ==
    [type |-> "message", m |-> m, compacted_messages |-> 0, kept_messages |-> 0, kept_from |-> 0]

CompactionRecord(compacted, kept) ==
    [type |-> "compaction", m |-> 0, compacted_messages |-> Len(compacted),
     kept_messages |-> Len(kept), kept_from |-> Len(compacted) + 1]

\* read_messages: the message entries of the file
Messages(file) == SelectSeq(file, LAMBDA e : e.type = "message")

session_prepend(st, m) ==
    LET file == <<Message(m)>> \o st.file
    IN [st EXCEPT !.file = file,
                  !.message_counts =
                      IF st.message_counts # NoCount THEN st.message_counts + 1
                      ELSE IF st.file # <<>> THEN Len(Messages(file))
                      ELSE 1]

\* SessionStore.append_message
session_append(st, m) ==
    LET file == Append(st.file, Message(m))
    IN [st EXCEPT !.file = file,
                  !.message_counts =
                      IF st.message_counts # NoCount THEN st.message_counts + 1
                      ELSE IF st.file # <<>> THEN Len(Messages(file))
                      ELSE 1]

RewriteFailures == {"create", "write", "fsync", "replace"}

rewrite_session_counts_first(st, entries, fail) ==
    IF fail = "create" THEN [st EXCEPT !.rewrite = fail, !.raised = TRUE]
    ELSE IF fail \in RewriteFailures
    THEN [st EXCEPT !.message_counts = Len(Messages(entries)), !.rewrite = fail,
                    !.raised = TRUE]
    ELSE [st EXCEPT !.file = entries, !.message_counts = Len(Messages(entries)),
                    !.rewrite = "done"]

rewrite_session_no_unlink(st, entries, fail) ==
    IF fail = "create" THEN [st EXCEPT !.rewrite = fail, !.raised = TRUE]
    ELSE IF fail \in RewriteFailures
    THEN [st EXCEPT !.tmp = @ + 1, !.rewrite = fail, !.raised = TRUE]
    ELSE [st EXCEPT !.file = entries, !.message_counts = Len(Messages(entries)),
                    !.rewrite = "done"]

\* SessionStore.rewrite_session; fail is the step that raises, if any: the
\* creation of the temp file, a write, the fsync or os.replace
rewrite_session(st, entries, fail) ==
    IF fail = "create" THEN [st EXCEPT !.rewrite = fail, !.raised = TRUE]
    ELSE LET t == [st EXCEPT !.tmp = @ + 1]
         IN IF fail \in RewriteFailures
            THEN [t EXCEPT !.tmp = @ - 1, !.rewrite = fail, !.raised = TRUE]
            ELSE [t EXCEPT !.tmp = @ - 1, !.file = entries,
                           !.message_counts = Len(Messages(entries)),
                           !.rewrite = "done"]

\* maybe_compact: how many of message_count messages stay
KeepCount(st, message_count) == Max(1, Ceil100(message_count * st.compact_keep_ratio))

\* procedure_extract_interval
ExtractInterval == 2

\* ProcedureStore.extract_candidates over the kinds of a span (a message is a
\* "user" message, an "assistant" reply, or a "procedure": an assistant reply
\* that lists three or more steps): how many candidates it returns
RECURSIVE Candidates(_, _)
Candidates(ks, pending_user) ==
    IF ks = <<>> THEN 0
    ELSE IF Head(ks) = "user" THEN Candidates(Tail(ks), TRUE)
    ELSE IF ~pending_user THEN Candidates(Tail(ks), FALSE)
    ELSE (IF Head(ks) = "procedure" THEN 1 ELSE 0) + Candidates(Tail(ks), FALSE)

extract_candidates(st, messages) ==
    Candidates([i \in 1..Len(messages) |-> st.kinds[messages[i].m]], FALSE)

after_compact_first(st, flush) ==
    [st EXCEPT !.callback = flush, !.notes = IF flush = "ok" THEN @ + 1 ELSE @]

\* maybe_compact after rewrite_session: the after_compact callback of the
\* manager (a Compaction section appended to MEMORY.md) runs once the rewrite
\* has returned, and what it raises is logged; flush is "ok", "raised", or
\* "none" when no callback is passed
after_compact(st, flush) ==
    IF st.raised THEN st
    ELSE [st EXCEPT !.callback = flush, !.notes = IF flush = "ok" THEN @ + 1 ELSE @]

extract_unless_callback_raised(st, compacted) ==
    IF st.callback = "raised" THEN st
    ELSE [st EXCEPT !.extracted = TRUE,
                    !.mined = IF extract_candidates(st, compacted) > 0
                              THEN Append(@, "compaction") ELSE @]

\* maybe_compact after the callback: candidates of the compacted span are
\* ingested into the candidate store
extract_compacted(st, compacted) ==
    [st EXCEPT !.extracted = TRUE,
               !.mined = IF extract_candidates(st, compacted) > 0
                         THEN Append(@, "compaction") ELSE @]

\* CompactionEngine.maybe_compact(session_id, after_compact, message_count=count)
maybe_compact(st, count, fail, flush) ==
    IF count < st.compact_threshold THEN st
    ELSE LET messages == Messages(st.file)
             message_count == Len(messages)
             st1 == [st EXCEPT !.message_counts = message_count]
             keep_count == KeepCount(st, message_count)
             compact_count == message_count - keep_count
             compacted == SubSeq(messages, 1, compact_count)
             kept == SubSeq(messages, compact_count + 1, message_count)
             r == rewrite_session(st1, <<CompactionRecord(compacted, kept)>> \o kept, fail)
             c == after_compact(r, flush)
         IN IF message_count < st.compact_threshold \/ compact_count <= 0 THEN st1
            ELSE IF c.raised THEN c
            ELSE extract_compacted([c EXCEPT !.compactions = @ + 1, !.compacted = TRUE],
                                   compacted)

\* CompactionEngine.maybe_extract_candidates: every interval-th message the
\* last interval messages are searched and their candidates ingested
maybe_extract_candidates(st, count, interval) ==
    LET messages == Messages(st.file)
        recent == SubSeq(messages, Max(1, Len(messages) - interval + 1), Len(messages))
    IN IF count = 0 \/ count % interval # 0 THEN [st EXCEPT !.hook = TRUE]
       ELSE IF recent = <<>> \/ extract_candidates(st, recent) = 0
       THEN [st EXCEPT !.hook = TRUE]
       ELSE [st EXCEPT !.hook = TRUE, !.mined = Append(@, "periodic")]

\* the fields that tell of the last call, as a call finds them
Called(st, how) ==
    [st EXCEPT !.last = how, !.rewrite = "skipped", !.raised = FALSE, !.compacted = FALSE,
               !.callback = "none", !.extracted = FALSE, !.hook = FALSE, !.mined = <<>>]

memory_append_both(st, kind, fail, flush) ==
    LET m == st.appended + 1
        st1 == session_append([Called(st, "append") EXCEPT !.appended = m,
                                                           !.kinds = Append(@, kind)], m)
        count == st1.message_counts
        c == maybe_compact(st1, count, fail, flush)
    IN IF c.raised THEN c
       ELSE maybe_extract_candidates(c, count, ExtractInterval)

\* MemoryManager.append_message for the next message
memory_append(st, kind, fail, flush) ==
    LET m == st.appended + 1
        st1 == session_append([Called(st, "append") EXCEPT !.appended = m,
                                                           !.kinds = Append(@, kind)], m)
        count == st1.message_counts
        c == maybe_compact(st1, count, fail, flush)
    IN IF c.raised \/ c.compacted THEN c
       ELSE maybe_extract_candidates(c, count, ExtractInterval)

\* the threads of a process that call append_message on the session
MaxThreads == 2

Threads == 1..MaxThreads

\* lock is the owner of the session's RLock, 0 when free; of each thread: pc
\* is where it stands in append_message, messages what its maybe_compact
\* read. gone lists the messages compacted so far, and waited tells that a
\* call began while another thread was between its read and its rewrite
NewThreads ==
    [lock |-> 0,
     pc |-> [t \in Threads |-> "idle"],
     messages |-> [t \in Threads |-> <<>>],
     gone |-> <<>>,
     waited |-> FALSE]

session_lock_absent(th, t) == TRUE

\* SessionStore.session_lock: lock.acquire() returns
session_lock(th, t) == th.lock = 0 \/ th.lock = t

(***************************************************************************)
(* The candidate ledger (memory/procedures.py, CandidateStore).  Weights   *)
(* and thresholds are counted in hundredths, days in half-lives of        *)
(* DECAY_HALF_LIFE_DAYS, so that a decayed weight is weight / 2^days; a    *)
(* value between two hundredths is the pair of its numerator and its       *)
(* denominator.                                                            *)
(***************************************************************************)
USABLE_THRESHOLD == 300

PERMANENT_THRESHOLD == 1000

\* the triggers that candidates carry; 0 is a candidate with no trigger or
\* no steps
MaxTriggers == 1

Triggers == 1..MaxTriggers

\* the candidates handed to one ingest call
MaxBatch == 2

\* the observations ingested in a behaviour
MaxObservations == 5

\* the half-lives that pass in a behaviour
MaxDays == 2

\* data.get(key) is None
NoEntry == [weight |-> 0, status |-> "none", last_seen |-> 0]

\* file is .candidates.json, today is date.today(). Of the last ingest that
\* returned: candidates is what it was given and promoted what it returned.
\* Of each thread: pc tells whether it stands between _read and _write, data
\* and result are its locals. promotions counts, for each trigger, the
\* promoted lists it was returned in, observed the candidates ingested, taken
\* the candidates handed to ingest, and fresh tells that an ingest met a trigger with no entry while another
\* ingest was between its _read and its _write
NewLedger(usable, permanent) ==
    [usable_threshold |-> usable,
     permanent_threshold |-> permanent,
     file |-> [g \in Triggers |-> NoEntry],
     today |-> 0,
     candidates |-> <<>>,
     promoted |-> <<>>,
     pc |-> [t \in Threads |-> "idle"],
     cands |-> [t \in Threads |-> <<>>],
     data |-> [t \in Threads |-> [g \in Triggers |-> NoEntry]],
     result |-> [t \in Threads |-> <<>>],
     promotions |-> [g \in Triggers |-> 0],
     observed |-> [g \in Triggers |-> 0],
     taken |-> 0,
     fresh |-> FALSE]

_days_since(last_seen, today) == Max(0, today - last_seen)

_apply_decay(weight, days) ==
    IF days <= 0 THEN [num |-> weight, den |-> 1]
    ELSE [num |-> weight, den |-> 2 ^ days]

\* round(new_weight, 2): to the nearest hundredth, a half to the even one
round(x) ==
    LET q == x.num \div x.den
        r == x.num % x.den
    IN IF 2 * r > x.den THEN q + 1
       ELSE IF 2 * r = x.den THEN q + (q % 2)
       ELSE q

decayed_always(existing, today) ==
    _apply_decay(existing.weight, _days_since(existing.last_seen, today))

\* ingest: the weight of an existing entry before the observation is added
decayed(existing, today) ==
    IF existing.status = "permanent" THEN [num |-> existing.weight, den |-> 1]
    ELSE _apply_decay(existing.weight, _days_since(existing.last_seen, today))

newly_promoted_all(new_status, was_permanent) == new_status = "permanent"

\* ingest: whether the entry goes into the returned list
newly_promoted(new_status, was_permanent) == new_status = "permanent" /\ ~was_permanent

\* ingest, one turn of the loop over the candidates; d is the pair of the
\* data read and the list to return
Observe(L, d, g) ==
    LET existing == d.data[g]
        old == decayed(existing, L.today)
        new_weight == [num |-> old.num + 100 * old.den, den |-> old.den]
        was_permanent == existing.status = "permanent"
        new_status == IF was_permanent THEN "permanent"
                      ELSE IF new_weight.num >= L.permanent_threshold * new_weight.den
                      THEN "permanent"
                      ELSE IF new_weight.num >= L.usable_threshold * new_weight.den
                      THEN "usable"
                      ELSE "candidate"
    IN IF g = 0 THEN d
       ELSE IF existing = NoEntry
       THEN [d EXCEPT !.data[g] = [weight |-> 100, status |-> "candidate",
                                   last_seen |-> L.today]]
       ELSE [data |-> [d.data EXCEPT ![g] = [weight |-> round(new_weight),
                                             status |-> new_status,
                                             last_seen |-> L.today]],
             result |-> IF newly_promoted(new_status, was_permanent)
                        THEN Append(d.result, g) ELSE d.result]

RECURSIVE IngestLoop(_, _, _)
IngestLoop(L, d, candidates) ==
    IF candidates = <<>> THEN d
    ELSE IngestLoop(L, Observe(L, d, Head(candidates)), Tail(candidates))

\* CandidateStore.ingest from data = self._read() to the end of the loop
ingest_read(L, t, candidates) ==
    LET d == IngestLoop(L, [data |-> L.file, result |-> <<>>], candidates)
    IN [L EXCEPT !.pc[t] = "write",
                 !.cands[t] = candidates,
                 !.taken = @ + Len(candidates),
                 !.data[t] = d.data,
                 !.result[t] = d.result,
                 !.fresh = @ \/ /\ \E u \in Threads : L.pc[u] = "write"
                                /\ \E i \in DOMAIN candidates :
                                      candidates[i] # 0 /\ L.file[candidates[i]] = NoEntry]

\* CandidateStore.ingest: self._write(data) and the return
ingest_write(L, t) ==
    LET Occurrences(list, g) == Cardinality({i \in DOMAIN list : list[i] = g})
    IN
    [L EXCEPT !.pc[t] = "idle",
              !.file = L.data[t],
              !.candidates = L.cands[t],
              !.promoted = L.result[t],
              !.cands[t] = <<>>,
              !.data[t] = [g \in Triggers |-> NoEntry],
              !.result[t] = <<>>,
              !.promotions = [g \in Triggers |-> @[g] + Occurrences(L.result[t], g)],
              !.observed = [g \in Triggers |-> @[g] + Occurrences(L.cands[t], g)]]

\* Procedure.effective_weight of an entry
effective_weight(entry, today) ==
    IF entry.status = "permanent" THEN [num |-> entry.weight, den |-> 1]
    ELSE _apply_decay(entry.weight, _days_since(entry.last_seen, today))

(***************************************************************************)
(* PROCEDURES.md (memory/procedures.py, ProcedureStore).  A document is    *)
(* the sequence of its lines, a line the tuple of its kind and its text:   *)
(* "top" is "# PROCEDURES", "blank" an empty line, "text" a line of free   *)
(* text, "title" is "## text", "trigger" is "Trigger: text", "steps" is    *)
(* "Steps:" and "step" is "1. text".  A text is a number, NoText the empty *)
(* one.                                                                    *)
(***************************************************************************)
NoText == 0

\* the lines of a document that a client sends
MaxLines == 4

\* the calls of write_procedures in a behaviour
MaxWrites == 2

\* parse_markdown, the first loop: the sections of a document, each the pair
\* of its title and its lines
RECURSIVE Sections(_, _, _, _)
Sections(lines, current_title, current_lines, sections) ==
    LET closed == IF current_title # NoText
                  THEN Append(sections, <<current_title, current_lines>>)
                  ELSE sections
    IN IF lines = <<>> THEN closed
       ELSE IF Head(lines)[1] = "title"
       THEN Sections(Tail(lines), Head(lines)[2], <<>>, closed)
       ELSE Sections(Tail(lines), current_title,
                     IF current_title # NoText THEN Append(current_lines, Head(lines))
                     ELSE current_lines,
                     sections)

\* parse_markdown, the loop over the lines of a section
RECURSIVE Fields(_, _, _)
Fields(body_lines, p, in_steps) ==
    IF body_lines = <<>> THEN p
    ELSE LET line == Head(body_lines)
             rest == Tail(body_lines)
         IN IF line[1] = "trigger" THEN Fields(rest, [p EXCEPT !.trigger = line[2]], FALSE)
            ELSE IF line[1] = "weight" THEN Fields(rest, [p EXCEPT !.weight = line[2]], FALSE)
            ELSE IF line[1] = "status" THEN Fields(rest, [p EXCEPT !.status = line[2]], FALSE)
            ELSE IF line[1] = "last seen"
            THEN Fields(rest, [p EXCEPT !.last_seen = line[2]], FALSE)
            ELSE IF line[1] = "first seen"
            THEN Fields(rest, [p EXCEPT !.first_seen = line[2]], FALSE)
            ELSE IF line[1] = "steps" THEN Fields(rest, p, TRUE)
            ELSE IF line[1] = "step" /\ in_steps
            THEN Fields(rest, [p EXCEPT !.steps = Append(@, line[2])], in_steps)
            ELSE Fields(rest, p, in_steps)

\* ProcedureStore.parse_markdown: a Procedure of every section; weights in
\* tenths, today the date.today() of the call
parse_markdown(content) ==
    LET sections == Sections(content, NoText, <<>>, <<>>)
        today == 1
        Parsed(section) ==
            LET p == Fields(section[2],
                            [trigger |-> NoText, weight |-> 0, status |-> "",
                             steps |-> <<>>, first_seen |-> NoText, last_seen |-> NoText],
                            FALSE)
            IN [title |-> section[1],
                trigger |-> IF p.trigger # NoText THEN p.trigger ELSE section[1],
                steps |-> p.steps,
                weight |-> IF p.weight = 0 THEN 10 ELSE p.weight,
                status |-> IF p.status = "" THEN "permanent" ELSE p.status,
                first_seen |-> IF p.first_seen # NoText THEN p.first_seen
                               ELSE IF p.last_seen # NoText THEN p.last_seen ELSE today,
                last_seen |-> IF p.last_seen # NoText THEN p.last_seen ELSE today]
    IN [i \in 1..Len(sections) |-> Parsed(sections[i])]

\* is_empty_procedure_document
is_empty_procedure_document(content) ==
    LET significant == SelectSeq(content, LAMBDA line : line # <<"blank">>)
    IN \/ significant = <<>>
       \/ Len(significant) = 1 /\ significant[1] = <<"top">>

\* sorted(..., key=(title, trigger)): the first of the least, then the rest
RECURSIVE sorted(_)
sorted(procedures) ==
    IF procedures = <<>> THEN <<>>
    ELSE LET Before(p, q) ==
                 p.title < q.title \/ (p.title = q.title /\ p.trigger < q.trigger)
             i == CHOOSE i \in DOMAIN procedures :
                      /\ \A j \in DOMAIN procedures : ~Before(procedures[j], procedures[i])
                      /\ \A j \in 1..(i - 1) : Before(procedures[i], procedures[j])
         IN <<procedures[i]>>
               \o sorted(SubSeq(procedures, 1, i - 1)
                            \o SubSeq(procedures, i + 1, Len(procedures)))

\* save_procedures, the lines of the procedures
RECURSIVE RenderedAll(_)
RenderedAll(items) ==
    IF items = <<>> THEN <<>>
    ELSE LET p == Head(items)
         IN <<<<"title", p.title>>, <<"trigger", p.trigger>>, <<"weight", p.weight>>,
              <<"status", p.status>>, <<"first seen", p.first_seen>>,
              <<"last seen", p.last_seen>>, <<"blank">>, <<"steps">>>>
               \o [i \in 1..Len(p.steps) |-> <<"step", p.steps[i]>>]
               \o <<<<"blank">>>>
               \o RenderedAll(Tail(items))

\* ProcedureStore.save_procedures: the document written, the empty lines at
\* its end stripped
save_procedures(procedures) ==
    LET items == sorted(SelectSeq(procedures,
                                  LAMBDA p : p.trigger # NoText /\ p.steps # <<>>))
        lines == <<<<"top">>, <<"blank">>>> \o RenderedAll(items)
        last == CHOOSE n \in DOMAIN lines :
                    /\ lines[n] # <<"blank">>
                    /\ \A m \in (n + 1)..Len(lines) : lines[m] = <<"blank">>
    IN SubSeq(lines, 1, last)

\* ProcedureStore.upsert_procedures: the procedures of the file, by key,
\* merged with the incoming ones and saved
upsert_procedures(content, procedures) ==
    LET Merged(existing, incoming) ==
            [incoming EXCEPT !.title = IF incoming.title # NoText THEN incoming.title
                                       ELSE existing.title,
                             !.steps = IF Len(incoming.steps) > Len(existing.steps)
                                       THEN incoming.steps ELSE existing.steps,
                             !.weight = Max(existing.weight, incoming.weight),
                             !.status = IF incoming.status = "permanent" THEN "permanent"
                                        ELSE existing.status,
                             !.first_seen = existing.first_seen]
        RECURSIVE Upsert(_, _)
        Upsert(merged, rest) ==
            IF rest = <<>> THEN merged
            ELSE LET incoming == Head(rest)
                     at == {i \in DOMAIN merged : merged[i].trigger = incoming.trigger}
                 IN IF incoming.trigger = NoText \/ incoming.steps = <<>>
                    THEN Upsert(merged, Tail(rest))
                    ELSE IF at = {} THEN Upsert(Append(merged, incoming), Tail(rest))
                    ELSE Upsert([i \in DOMAIN merged |->
                                    IF i \in at THEN Merged(merged[i], incoming)
                                    ELSE merged[i]], Tail(rest))
    IN save_procedures(Upsert(SelectSeq(parse_markdown(content),
                                        LAMBDA p : p.trigger # NoText), procedures))

\* file is PROCEDURES.md as ProcedureStore.__init__ leaves it, draft the
\* document of the client; of the last write_procedures: raised tells
\* whether it raised ValueError
NewDocument ==
    [file |-> <<<<"top">>, <<"blank">>>>, draft |-> <<>>, writes |-> 0, raised |-> FALSE]

(***************************************************************************)
(* The event emitter (infra/events.py).  An event is the pair of its run  *)
(* id and its sequence number.                                             *)
(***************************************************************************)
\* the run ids that events carry
MaxRunIds == 2

\* the emit calls in a behaviour
MaxEmits == 3

\* the subscribers of the emitter
MaxListeners == 2

\* _seq_counters[run_id] += 1 put back as it was
next_seq_reused(counter) == counter

\* _seq_counters[run_id] += 1
next_seq(counter) == counter + 1

\* the loop over the listeners given up at the first that raises, its
\* exception passed on
notify_until_raise(listeners, outcomes) ==
    [notified |-> Cardinality({i \in 1..listeners :
                                  \A j \in 1..(i - 1) : outcomes[j] = "ok"}),
     raised |-> \E i \in 1..listeners : outcomes[i] = "raised"]

\* emit, the loop over the listeners: every one is called, what one raises
\* is logged; outcomes tells of each listener whether it raises
notify(listeners, outcomes) ==
    [notified |-> listeners, raised |-> FALSE]

\* _recent cut to its first max_recent events
TrimmedOldest(recent, max_recent) ==
    IF Len(recent) > max_recent THEN SubSeq(recent, 1, max_recent) ELSE recent

\* _recent trimmed to the newest max_recent events
Trimmed(recent, max_recent) ==
    IF Len(recent) > max_recent
    THEN SubSeq(recent, Len(recent) - max_recent + 1, Len(recent))
    ELSE recent

\* AgentEventEmitter.__init__ with events_dir set. Of each thread: pc is
\* where it stands in emit and event the event it made; listeners counts the
\* subscribers. assigned lists, for each run id, the sequence numbers in the
\* order they were given, recorded every event in the order it was put into
\* _recent, emits counts the calls, and last tells of the emit that returned
\* or raised last
NewEmitter(max_recent) ==
    [max_recent |-> Max(1, max_recent),
     listeners |-> 0,
     seq_counters |-> [r \in 1..MaxRunIds |-> 0],
     recent |-> <<>>,
     pc |-> [t \in Threads |-> "idle"],
     event |-> [t \in Threads |-> <<0, 0>>],
     assigned |-> [r \in 1..MaxRunIds |-> <<>>],
     recorded |-> <<>>,
     emits |-> 0,
     last |-> [done |-> FALSE, recorded |-> FALSE, notified |-> 0, outcomes |-> <<>>,
               persist |-> "ok", raised |-> FALSE]]

(***************************************************************************)
(* The locks of the memory layer.                                          *)
(***************************************************************************)
MaxSessions == 2

NoLock == <<"none", 0>>

\* a variant of the blocks that keeps the notes under the lock of the next
\* session
append_message_blocks_notes_in_session(session) ==
    <<<<"emitter", 0>>, <<"emitter", 0>>, <<"session", (session % MaxSessions) + 1>>,
      <<"procedures", 0>>, <<"emitter", 0>>>>

\* the locked blocks MemoryManager.append_message can enter while it holds
\* the lock of its session, in the order of the code: emit of
\* memory.session.appended, emit of memory.compaction.triggered,
\* append_memory_section from the flush callback, _upsert_procedures_locked
\* (after a compaction or from maybe_extract_candidates), emit of
\* memory.compaction.completed. Which of them a call enters depends on the
\* emitter being set, the count, the highlights and the promotions
append_message_blocks(session) ==
    <<<<"emitter", 0>>, <<"emitter", 0>>, <<"notes", 0>>, <<"procedures", 0>>, <<"emitter", 0>>>>

\* SessionStore._session_locks_lock ("table"), MemoryManager._memory_lock
\* ("notes"), CompactionEngine._procedure_lock, AgentEventEmitter._lock and the
\* RLock of every session key: none held, every thread outside. Of each thread:
\* session is the session of its append_message, pc where it stands, block
\* the last block it went for, want the lock it is about to acquire or waits
\* for, held the locks it holds, the oldest first. orders holds <<a, b>> when
\* some thread went for a lock of kind b while it held one of kind a
\* (<<"session", "session">> for the locks of two different sessions)
NewLocks ==
    [owner |-> [l \in {<<"table", 0>>, <<"notes", 0>>, <<"procedures", 0>>, <<"emitter", 0>>}
                         \cup {<<"session", s>> : s \in 1..MaxSessions} |-> 0],
     th |-> [t \in Threads |-> [session |-> 1, pc |-> "idle", block |-> 0,
                                 want |-> NoLock, held |-> <<>>]],
     orders |-> {}]

\* a thread goes for a lock: what it holds by then is ordered before it
Requested(L, t, lock) ==
    [L EXCEPT !.th[t].want = lock,
              !.orders = @ \cup {<<L.th[t].held[i][1], lock[1]>> :
                                   i \in {j \in DOMAIN L.th[t].held : L.th[t].held[j] # lock}}]

\* the thread releases the lock it took last
Released(L, t) ==
    LET held == L.th[t].held
    IN [L EXCEPT !.owner[held[Len(held)]] = 0,
                 !.th[t].held = SubSeq(held, 1, Len(held) - 1)]

(***************************************************************************)
(* State.                                                                  *)
(***************************************************************************)
VARIABLES
    agents,     \* AgentRegistry._agents: agent id -> instance, NoInst when absent
    inst,       \* every RegisteredAgent / agent constructed so far, by instance number
    runs,       \* SubagentRegistry._runs
    disk,       \* the JSON object in .subagent_runs.json
    calls,      \* the assign / delegate_task calls in progress
    ret,        \* what the call that returned last handed to its caller
    health,     \* the _health_loop coroutine
    admin,      \* an API client calling stop_agent
    returned,   \* run id -> how many check_timeouts calls have returned the run
    now,        \* time.time()
    store,      \* one session of a MemoryManager: its SessionStore and CompactionEngine
    thr,      \* the threads calling append_message on that session
    ledger,      \* the candidate ledger of one agent (.candidates.json) and the threads ingesting into it
    doc,      \* PROCEDURES.md of one agent and the document a client is about to PUT
    em,      \* the AgentEventEmitter and the threads calling emit
    lk       \* the locks of the memory layer and the threads that take them

vars == <<agents, inst, runs, disk, calls, ret, health, admin, returned, now, store, thr, ledger, doc, em, lk>>

NoTime == 0 - 1

\* get_agent / self._agents.get(agent_id)
get_agent(id) == IF id \in DOMAIN agents THEN agents[id] ELSE NoInst

\* is_valid_agent_id: the stripped id matches AGENT_ID_PATTERN
is_valid_agent_id(id) == strip(id) \in {A, B, C}

\* load_persona: agent.json exists in the directory of exactly that name
load_persona(id) == id \in Personas

\* RegisteredAgent(persona, agent, ...) around a freshly constructed agent
NewInstance(id) ==
    [id |-> id, state |-> "starting", alive |-> FALSE, current_task |-> NoCall,
     busy_since |-> NoTime, locked |-> FALSE, waiters |-> <<>>, pending |-> 0]

\* a call: its position, its handle, its run, the call whose task asked for it,
\* its place in the order of the RegisteredAgent.assign calls that had to wait
NewCall ==
    [kind |-> "none", pc |-> "new", h |-> NoInst, rid |-> 0, issuer |-> NoCall,
     ticket |-> 0, autostart |-> FALSE]

\* once a call has returned, its task and its frame belong to the caller
Done == [NewCall EXCEPT !.pc = "done"]

NoRet ==
    [c |-> NoCall, kind |-> "none", h |-> NoInst, rid |-> 0, autostart |-> FALSE,
     how |-> "none", status |-> "pending", settled |-> "pending", result |-> NoneVal,
     error |-> NoneVal,
     raised |-> NoneVal]

\* call c returns: `how` says where, the task fields and the exception follow
\* (settled: the first terminal status that assign gave the task)
Ret(c, cr, how, status, result, error, raised) ==
    [c |-> c, kind |-> cr.kind, h |-> cr.h, rid |-> cr.rid, autostart |-> cr.autostart,
     how |-> how, status |-> status, settled |-> status, result |-> result,
     error |-> error, raised |-> raised]

(***************************************************************************)
(* The per-agent gate (RegisteredAgent._assign_lock, an asyncio.Lock) and  *)
(* the part of agent.assign that runs before its first suspension.         *)
(***************************************************************************)
LockFreeUngated(I, h) == TRUE

\* asyncio.Lock.acquire takes the lock at once only when it is free and nobody waits
LockFree(I, h) == ~I[h].locked /\ I[h].waiters = <<>>

WokenLast(I, h) == I[h].waiters[Len(I[h].waiters)]

\* asyncio.Lock.release wakes the waiter that has waited longest
Woken(I, h) == Head(I[h].waiters)

\* GeminiAgent.assign, the readiness check
Ready(I, h) == I[h].state \in {"idle", "busy"}

NotReadyText(I, h) == <<"Agent ">> \o I[h].id \o <<" is not ready">>

\* the lock is released and the pending count dropped (async with / finally)
LeaveGate(I, h) == [I EXCEPT ![h].locked = FALSE, ![h].pending = @ - 1]

\* GeminiAgent.assign up to `await ask(...)`, entered with the lock acquired
AgentEnter(I, h, c, t) ==
    IF Ready(I, h)
    THEN [inst |-> [I EXCEPT ![h].locked = TRUE, ![h].current_task = c,
                             ![h].busy_since = t, ![h].state = "busy"],
          at |-> "asking"]
    ELSE [inst |-> LeaveGate(I, h), at |-> "raised"]

\* RegisteredAgent.assign up to its first suspension
EnterGate(I, h, c, t) ==
    LET I1 == [I EXCEPT ![h].pending = @ + 1]
    IN IF LockFree(I, h)
       THEN AgentEnter(I1, h, c, t)
       ELSE [inst |-> [I1 EXCEPT ![h].waiters = Append(@, c)], at |-> "waiting"]

\* strip_reasoning(clean_text(raw_output))
MARK == "*"
RECURSIVE AfterMark(_)
AfterMark(s) == IF s = <<>> THEN <<>>
                ELSE IF Head(s) = MARK THEN Tail(s) ELSE AfterMark(Tail(s))
HasMark(s) == \E i \in DOMAIN s : s[i] = MARK
strip_reasoning(s) == IF HasMark(s) THEN strip(AfterMark(s)) ELSE strip(s)

\* what process.ask can do: return output, or raise with some text
AskOutputs == {<<>>, <<"out">>, <<"think", MARK, SP, "out">>}
AskErrors == {<<>>, <<SP>>, <<"exit code 1">>}
AskOutcomes == [ok : {TRUE}, text : AskOutputs] \cup [ok : {FALSE}, text : AskErrors]

\* the outcomes of the specifications that are about the gates and the map
SomeOutcomes == {[ok |-> TRUE, text |-> <<"out">>], [ok |-> FALSE, text |-> <<>>],
                 [ok |-> FALSE, text |-> <<"exit code 1">>]}

\* process.ask returns, then memory_manager.append_message raises for the reply
AppendFailures == {[ok |-> TRUE, text |-> <<"out">>, append |-> FALSE]}
AppendRaises(out) == "append" \in DOMAIN out
AppendError == <<"No space left on device">>

\* GeminiAgent.assign after ask: the task it returns; the reply is appended
\* to the session after the task was made completed, inside the same try
TaskAfter(c, cr, out) ==
    IF out.ok
    THEN IF AppendRaises(out)
         THEN [Ret(c, cr, "task", "failed", strip_reasoning(out.text), AppendError, NoneVal)
                  EXCEPT !.settled = "completed"]
         ELSE Ret(c, cr, "task", "completed", strip_reasoning(out.text), NoneVal, NoneVal)
    ELSE Ret(c, cr, "task", "failed", NoneVal, out.text, NoneVal)

AgentLeaveIdle(I, h) ==
    LeaveGate([I EXCEPT ![h].current_task = NoCall, ![h].busy_since = NoTime,
                        ![h].state = "idle"], h)

\* GeminiAgent.assign, the finally block, then the gate is left
AgentLeave(I, h) ==
    LeaveGate([I EXCEPT ![h].current_task = NoCall, ![h].busy_since = NoTime,
                        ![h].state = IF I[h].alive THEN "idle" ELSE "dead"], h)

(***************************************************************************)
(* delegate_task after child.assign: the run table it leaves.              *)
(***************************************************************************)
TruthyUnlessNone(s) == s # NoneVal

\* `result_task.error or ...`: the error is neither None nor empty
Truthy(s) == s # NoneVal /\ s # <<>>

TaskSucceeded(r) == r.status = "completed" /\ r.result # NoneVal

DelegateFinish(rs, r) ==
    IF r.raised # NoneVal THEN fail_run(rs, r.rid, r.raised)
    ELSE IF TaskSucceeded(r) THEN complete_run(rs, r.rid, r.result)
    ELSE fail_run(rs, r.rid, IF Truthy(r.error) THEN r.error ELSE <<"Delegated task failed">>)

\* the caller of RegisteredAgent.assign resumes with the task or the exception
Resume(rs, r) == IF r.kind = "delegate" THEN DelegateFinish(rs, r) ELSE rs

(***************************************************************************)
(* start_agent / stop_agent, shared by delegate_task and the health loop.  *)
(***************************************************************************)
\* process.kill() has a subprocess to wait for only while an ask is running
ActiveProcess(h) == \E c \in Calls : calls[c].pc = "asking" /\ calls[c].h = h

\* GeminiAgent.stop after process.kill() returned
Stopped(I, h) == [I EXCEPT ![h].state = "stopped"]

StartedLater(I, id) == Append(I, NewInstance(id))

\* start_agent from the construction of the agent to the stored handle
\* (agent.start() and process.spawn() never suspend)
Started(I, id) ==
    Append(I, [NewInstance(id) EXCEPT !.state = "idle", !.alive = TRUE])

Store(Ag, id, h) == [Ag EXCEPT ![id] = h]

AdminIdle == [pc |-> "idle", h |-> NoInst, ids |-> <<>>]

HealthSleep == [pc |-> "sleep", issues |-> <<>>, id |-> A, h |-> NoInst]

\* the registry as the application starts serving: start_all() has started the
\* enabled persona "a" (persona "b" is disabled) and created the health loop
InitRegistry ==
    /\ agents = [id \in Personas |-> IF id = A THEN 1 ELSE NoInst]
    /\ inst = <<[NewInstance(A) EXCEPT !.state = "idle", !.alive = TRUE]>>
    /\ runs = <<>>
    /\ disk = <<>>
    /\ calls = [c \in Calls |-> NewCall]
    /\ ret = NoRet
    /\ health = HealthSleep
    /\ admin = AdminIdle
    /\ returned = [rid \in Calls |-> 0]
    /\ now = 0

\* the state after the lifespan's start_all, with the memory of the default
\* configuration
Init ==
    /\ InitRegistry
    /\ store = NewStore(40, 25)
    /\ thr = NewThreads
    /\ ledger = NewLedger(USABLE_THRESHOLD, PERMANENT_THRESHOLD)
    /\ doc = NewDocument
    /\ em = NewEmitter(500)
    /\ lk = NewLocks

\* the same with every configuration of the memory
InitMemory ==
    /\ InitRegistry
    /\ \E threshold \in ThresholdInputs, ratio \in KeepRatioInputs :
           store = NewStore(threshold, ratio)
    /\ thr = NewThreads
    /\ ledger = NewLedger(USABLE_THRESHOLD, PERMANENT_THRESHOLD)
    /\ doc = NewDocument
    /\ em = NewEmitter(500)
    /\ lk = NewLocks

(***************************************************************************)
(* Calls.                                                                  *)
(***************************************************************************)
\* call slots are taken in order (the slots are interchangeable)
Fresh(c) == calls[c].pc = "new" /\ \A d \in Calls : d < c => calls[d].pc # "new"

\* the next place in the order of the RegisteredAgent.assign calls
NextTicket ==
    LET used == {calls[d].ticket : d \in Calls}
    IN 1 + CHOOSE m \in used : \A k \in used : k <= m

\* call c, with frame cr and run table rs, has gone through
\* RegisteredAgent.assign on h up to its first suspension (g)
AfterGate(c, cr, h, I, g, rs) ==
    LET r == Ret(c, [cr EXCEPT !.h = h], "not_ready", "pending", NoneVal, NoneVal,
                 NotReadyText(I, h))
    IN /\ inst' = g.inst
       /\ IF g.at = "raised"
          THEN /\ calls' = [calls EXCEPT ![c] = Done]
               /\ ret' = r
               /\ runs' = Resume(rs, r)
          ELSE /\ calls' = [calls EXCEPT ![c] =
                               [cr EXCEPT !.h = h, !.pc = g.at,
                                          !.ticket = IF g.at = "waiting" THEN NextTicket
                                                     ELSE cr.ticket]]
               /\ ret' = ret
               /\ runs' = rs
       /\ disk' = IF rs # runs \/ (g.at = "raised" /\ cr.kind = "delegate")
                  THEN save_to_disk(runs') ELSE disk

\* ChatBridge.handle_message: the runtime is looked up, then the bridge
\* awaits send_message before it assigns
BridgeGet(c, id) ==
    /\ Fresh(c)
    /\ get_agent(id) # NoInst
    /\ calls' = [calls EXCEPT ![c].kind = "assign", ![c].pc = "got", ![c].h = get_agent(id)]
    /\ UNCHANGED <<agents, inst, runs, disk, ret, health, admin, returned, now, store, thr, ledger, doc, em, lk>>

\* ChatBridge.handle_message: await runtime.assign(task)
BridgeAssign(c) ==
    /\ calls[c].pc = "got"
    /\ AfterGate(c, calls[c], calls[c].h, inst, EnterGate(inst, calls[c].h, c, now), runs)
    /\ UNCHANGED <<agents, health, admin, returned, now, store, thr, ledger, doc, em, lk>>

\* who asks for a delegation: an API client, or the task of call p through
\* the delegation MCP server of its agent
IssuedBy(p, parent) ==
    \/ p = NoCall
    \/ /\ p \in Calls
       /\ calls[p].pc = "asking"
       /\ inst[calls[p].h].id = strip(parent)

\* delegate_task up to its first suspension; mcp tells whether the MCP
\* servers of the child's persona resolve when the child has to be started
delegate_task(c, p, parent, child, task, psess, timeout, mcp) ==
    /\ Fresh(c)
    /\ IssuedBy(p, parent)
    /\ LET cr == [calls[c] EXCEPT !.kind = "delegate", !.issuer = p]
           err == ValidationError(parent, child, task, psess, timeout)
           rs == register_run(runs, parent, child, task, psess, timeout, now)
           crr == [cr EXCEPT !.rid = Len(rs)]
           crs == [crr EXCEPT !.autostart = TRUE]
           I == Started(inst, child)
       IN IF err # NoError
          THEN /\ calls' = [calls EXCEPT ![c] = Done]
               /\ ret' = Ret(c, cr, "invalid", "pending", NoneVal, NoneVal, err)
               /\ UNCHANGED <<agents, inst, runs, disk>>
          ELSE IF get_agent(child) # NoInst
          THEN /\ AfterGate(c, crr, get_agent(child), inst,
                            EnterGate(inst, get_agent(child), c, now),
                            mark_running(rs, crr.rid))
               /\ UNCHANGED agents
          ELSE IF ~is_valid_agent_id(child)
          THEN /\ runs' = rs
               /\ disk' = save_to_disk(rs)
               /\ calls' = [calls EXCEPT ![c] = Done]
               /\ ret' = Ret(c, crs, "start_raised", "pending", NoneVal, NoneVal,
                             <<"Invalid agent id: ">> \o child)
               /\ UNCHANGED <<agents, inst>>
          ELSE IF ~load_persona(child)
          THEN /\ runs' = fail_run(rs, crr.rid, <<"Failed to start agent ">> \o child)
               /\ disk' = save_to_disk(runs')
               /\ calls' = [calls EXCEPT ![c] = Done]
               /\ ret' = Ret(c, crs, "no_persona", "pending", NoneVal, NoneVal, NoneVal)
               /\ UNCHANGED <<agents, inst>>
          ELSE IF ~mcp
          THEN /\ runs' = rs
               /\ disk' = save_to_disk(rs)
               /\ calls' = [calls EXCEPT ![c] = Done]
               /\ ret' = Ret(c, crs, "start_raised", "pending", NoneVal, NoneVal,
                             <<"Unknown MCP server(s)">>)
               /\ UNCHANGED <<agents, inst>>
          ELSE /\ Len(inst) < MaxInst
               /\ agents' = Store(agents, child, Len(I))
               /\ AfterGate(c, crs, Len(I), I, EnterGate(I, Len(I), c, now),
                            mark_running(rs, crr.rid))
    /\ UNCHANGED <<health, admin, returned, now, store, thr, ledger, doc, em, lk>>

\* a waiter woken by the release of the lock takes it and enters agent.assign
GateWake(c) ==
    /\ calls[c].pc = "waiting"
    /\ LET h == calls[c].h
           I == [inst EXCEPT ![h].waiters = Tail(@)]
       IN /\ ~inst[h].locked
          /\ Woken(inst, h) = c
          /\ AfterGate(c, calls[c], h, I, AgentEnter(I, h, c, now), runs)
    /\ UNCHANGED <<agents, health, admin, returned, now, store, thr, ledger, doc, em, lk>>

\* process.ask returned or raised: agent.assign finishes, the gate is left and
\* the caller resumes
AskReturn(c, out) ==
    /\ calls[c].pc = "asking"
    /\ inst' = AgentLeave(inst, calls[c].h)
    /\ calls' = [calls EXCEPT ![c] = Done]
    /\ ret' = TaskAfter(c, calls[c], out)
    /\ runs' = Resume(runs, ret')
    /\ disk' = IF calls[c].kind = "delegate" THEN save_to_disk(runs') ELSE disk
    /\ UNCHANGED <<agents, health, admin, returned, now, store, thr, ledger, doc, em, lk>>

(***************************************************************************)
(* The health loop.                                                        *)
(***************************************************************************)
StuckTimeout == 1

inspectNoContinue(I, h, t) ==
    IF I[h].state = "busy" /\ I[h].busy_since # NoTime /\ t - I[h].busy_since > StuckTimeout
    THEN "stuck"
    ELSE IF ~I[h].alive /\ I[h].state \notin {"stopped", "starting"}
         THEN "dead" ELSE "ok"

\* HealthInspector.inspect for one agent
inspect(I, h, t) ==
    IF I[h].state = "busy"
    THEN IF I[h].busy_since # NoTime /\ t - I[h].busy_since > StuckTimeout
         THEN "stuck" ELSE "ok"
    ELSE IF ~I[h].alive /\ I[h].state \notin {"stopped", "starting"}
         THEN "dead" ELSE "ok"

\* the issues of one pass, in the order of the values of self._agents
Issues(first) ==
    LET found == {id \in Personas : agents[id] # NoInst /\ inspect(inst, agents[id], now) # "ok"}
        rest == found \ {first}
    IN (IF first \in found THEN <<first>> ELSE <<>>) \o
       (IF rest = {} THEN <<>> ELSE <<CHOOSE id \in rest : TRUE>>)

RECURSIVE RestartsUnguarded(_, _, _, _)
RestartsUnguarded(iss, Ag, I, mcp) ==
    IF iss = <<>>
    THEN [pc |-> "sweep", issues |-> <<>>, id |-> A, h |-> NoInst, agents |-> Ag, inst |-> I]
    ELSE LET i == Head(iss)
         IN IF Ag[i] # NoInst /\ ActiveProcess(Ag[i])
            THEN [pc |-> "killing", issues |-> Tail(iss), id |-> i, h |-> Ag[i],
                  agents |-> [Ag EXCEPT ![i] = NoInst], inst |-> I]
            ELSE LET I1 == Started(IF Ag[i] # NoInst THEN Stopped(I, Ag[i]) ELSE I, i)
                 IN RestartsUnguarded(Tail(iss), Store(Ag, i, Len(I1)), I1, mcp)

\* _health_loop from one issue to its next suspension: issues whose agent has
\* left the map are skipped, the others restarted (mcp: the personas whose MCP
\* servers resolve); stop_agent suspends only when a subprocess is to be
\* killed, and an exception of start_agent ends the loop
RECURSIVE Restarts(_, _, _, _)
Restarts(iss, Ag, I, mcp) ==
    IF iss = <<>>
    THEN [pc |-> "sweep", issues |-> <<>>, id |-> A, h |-> NoInst, agents |-> Ag, inst |-> I]
    ELSE LET i == Head(iss)
         IN IF Ag[i] = NoInst THEN Restarts(Tail(iss), Ag, I, mcp)
            ELSE IF ActiveProcess(Ag[i])
            THEN [pc |-> "killing", issues |-> Tail(iss), id |-> i, h |-> Ag[i],
                  agents |-> [Ag EXCEPT ![i] = NoInst], inst |-> I]
            ELSE IF i \notin mcp
            THEN [pc |-> "crashed", issues |-> <<>>, id |-> i, h |-> NoInst,
                  agents |-> [Ag EXCEPT ![i] = NoInst], inst |-> Stopped(I, Ag[i])]
            ELSE LET I1 == Started(Stopped(I, Ag[i]), i)
                 IN Restarts(Tail(iss), Store(Ag, i, Len(I1)), I1, mcp)

\* the loop goes on from r: it sleeps again after the sweep of the timeouts
HealthProceed(r) ==
    /\ Len(r.inst) <= MaxInst
    /\ agents' = r.agents
    /\ inst' = r.inst
    /\ IF r.pc = "sweep"
       THEN /\ runs' = check_timeouts(runs, now)
            /\ returned' = [rid \in Calls |->
                                IF rid \in TimedOut(runs, now) THEN returned[rid] + 1
                                ELSE returned[rid]]
            /\ disk' = IF TimedOut(runs, now) # {} THEN save_to_disk(runs') ELSE disk
            /\ health' = HealthSleep
       ELSE /\ health' = [pc |-> r.pc, issues |-> r.issues, id |-> r.id, h |-> r.h]
            /\ UNCHANGED <<runs, disk, returned>>
    /\ UNCHANGED <<calls, ret, admin, now, store, thr, ledger, doc, em, lk>>

\* asyncio.sleep returned: inspect, restart, sweep
HealthPass(first, mcp) ==
    /\ health.pc = "sleep"
    /\ HealthProceed(Restarts(Issues(first), agents, inst, mcp))

\* restart_agent: process.kill() returned, the agent is stopped and start_agent
\* follows (it returns at once when the id is in the map again)
HealthKilled(mcp) ==
    /\ health.pc = "killing"
    /\ LET I == Stopped(inst, health.h)
       IN HealthProceed(
            IF get_agent(health.id) # NoInst THEN Restarts(health.issues, agents, I, mcp)
            ELSE IF health.id \notin mcp
            THEN [pc |-> "crashed", issues |-> <<>>, id |-> health.id, h |-> NoInst,
                  agents |-> agents, inst |-> I]
            ELSE LET I1 == Started(I, health.id)
                 IN Restarts(health.issues, Store(agents, health.id, Len(I1)), I1, mcp))

(***************************************************************************)
(* The API client: POST /agents/{id}/stop.                                 *)
(***************************************************************************)
\* stop_agent up to its first suspension: the handle is popped; agent.stop()
\* suspends only when process.kill() has a subprocess to wait for
AdminStop(id) ==
    /\ admin.pc = "idle"
    /\ agents[id] # NoInst
    /\ agents' = [agents EXCEPT ![id] = NoInst]
    /\ IF ActiveProcess(agents[id])
       THEN /\ admin' = [pc |-> "killing", h |-> agents[id], ids |-> <<>>]
            /\ inst' = inst
       ELSE /\ admin' = AdminIdle
            /\ inst' = Stopped(inst, agents[id])
    /\ UNCHANGED <<runs, disk, calls, ret, health, returned, now, store, thr, ledger, doc, em, lk>>

\* stop_agent: process.kill() returned, the agent is stopped
AdminKilled ==
    /\ admin.pc = "killing"
    /\ inst' = Stopped(inst, admin.h)
    /\ admin' = AdminIdle
    /\ UNCHANGED <<agents, runs, disk, calls, ret, health, returned, now, store, thr, ledger, doc, em, lk>>

(***************************************************************************)
(* The shutdown: stop_all.                                                 *)
(***************************************************************************)
\* stop_all, the loop over the ids from one id to its next suspension:
\* stop_agent pops the handle and stops the agent; agent.stop() suspends only
\* when process.kill() has a subprocess to wait for
RECURSIVE Stops(_, _, _)
Stops(ids, Ag, I) ==
    IF ids = <<>>
    THEN [pc |-> "stopped_all", h |-> NoInst, ids |-> <<>>, agents |-> Ag, inst |-> I]
    ELSE LET i == Head(ids)
         IN IF Ag[i] = NoInst THEN Stops(Tail(ids), Ag, I)
            ELSE IF ActiveProcess(Ag[i])
            THEN [pc |-> "stopping", h |-> Ag[i], ids |-> Tail(ids),
                  agents |-> [Ag EXCEPT ![i] = NoInst], inst |-> I]
            ELSE Stops(Tail(ids), [Ag EXCEPT ![i] = NoInst], Stopped(I, Ag[i]))

\* stop_all up to `await self._health_task`: _stopping is set and the health
\* task cancelled, wherever it waits (a restart that waits for process.kill()
\* is left with its agent popped and not stopped). A health task that has
\* ended with an exception hands it to stop_all, which raises
stop_all ==
    /\ admin.pc = "idle"
    /\ IF health.pc = "crashed"
       THEN /\ admin' = [AdminIdle EXCEPT !.pc = "raised"]
            /\ health' = health
       ELSE /\ admin' = [AdminIdle EXCEPT !.pc = "cancelling"]
            /\ health' = [health EXCEPT !.pc = "cancelled"]
    /\ UNCHANGED <<agents, inst, runs, disk, calls, ret, returned, now, store, thr, ledger, doc, em, lk>>

\* stop_all resumes, after the health task has ended (the ids are then read
\* from the runtime map, in its order) or after a process.kill() has returned
StopAllResumed(first) ==
    /\ admin.pc \in {"cancelling", "stopping"}
    /\ LET rest == {id \in Personas : agents[id] # NoInst} \ {first}
           keys == (IF agents[first] # NoInst THEN <<first>> ELSE <<>>) \o
                   (IF rest = {} THEN <<>> ELSE <<CHOOSE id \in rest : TRUE>>)
           r == IF admin.pc = "cancelling" THEN Stops(keys, agents, inst)
                ELSE Stops(admin.ids, agents, Stopped(inst, admin.h))
       IN /\ agents' = r.agents
          /\ inst' = r.inst
          /\ admin' = [pc |-> r.pc, h |-> r.h, ids |-> r.ids]
    /\ UNCHANGED <<runs, disk, calls, ret, health, returned, now, store, thr, ledger, doc, em, lk>>

(***************************************************************************)
(* The clock.                                                              *)
(***************************************************************************)
\* the clock is read only to take differences: it is advanced while a
\* delegation run or a busy agent has a start time to compare it with
Timed ==
    \/ \E rid \in DOMAIN runs : runs[rid].status = "running"
    \/ \E h \in DOMAIN inst : inst[h].state = "busy"

Tick ==
    /\ now < MaxTime
    /\ Timed
    /\ now' = now + 1
    /\ UNCHANGED <<agents, inst, runs, disk, calls, ret, health, admin, returned, store, thr, ledger, doc, em, lk>>

\* the requests, the health loop and the clock
Next ==
    \/ \E c \in 1..MaxRequests, id \in Personas : BridgeGet(c, id)
    \/ \E c \in Calls : BridgeAssign(c)
    \/ \E c \in 1..MaxRequests, parent \in ParentIds, child \in ChildIds, mcp \in BOOLEAN :
            delegate_task(c, NoCall, parent, child, <<"do X">>, <<"s1">>, Fl(1), mcp)
    \/ \E c \in Calls : GateWake(c)
    \/ \E c \in Calls, out \in SomeOutcomes : AskReturn(c, out)
    \/ \E first \in Personas, mcp \in SUBSET Personas : HealthPass(first, mcp)
    \/ \E mcp \in SUBSET Personas : HealthKilled(mcp)
    \/ Tick

Spec == Init /\ [][Next]_vars

\* delegations, the health loop and the clock, with every outcome of process.ask
NextOutcome ==
    \/ \E c \in 1..MaxRequests, parent \in ParentIds, child \in Personas :
            delegate_task(c, NoCall, parent, child, <<"do X">>, <<"s1">>, Fl(1), TRUE)
    \/ \E c \in Calls : GateWake(c)
    \/ \E c \in Calls, out \in AskOutcomes : AskReturn(c, out)
    \/ \E first \in Personas, mcp \in SUBSET Personas : HealthPass(first, mcp)
    \/ \E mcp \in SUBSET Personas : HealthKilled(mcp)
    \/ Tick

SpecOutcome == Init /\ [][NextOutcome]_vars

\* the gates under every interleaving of MaxCalls assignments, the
\* delegations asked for by running tasks among them
NextGate ==
    \/ \E c \in Calls, id \in Personas : BridgeGet(c, id)
    \/ \E c \in Calls : BridgeAssign(c)
    \/ \E c \in Calls, p \in Calls \cup {NoCall}, parent \in ParentIds, child \in ChildIds :
            delegate_task(c, p, parent, child, <<"do X">>, <<"s1">>, Fl(1), TRUE)
    \/ \E c \in Calls : GateWake(c)
    \/ \E c \in Calls, out \in SomeOutcomes : AskReturn(c, out)

SpecGate == Init /\ [][NextGate]_vars

\* no call is between its first step and its return
Quiet == \A d \in Calls : calls[d].pc \in {"new", "done"}

\* POST /delegation/run while no other call is in progress
run_delegation(c, parent, child, task, psess, timeout) ==
    /\ Quiet
    /\ delegate_task(c, NoCall, parent, child, task, psess, timeout, TRUE)

\* delegate_task for every request a client can send, one request at a time
NextRequest ==
    \/ \E c \in 1..MaxRequests, parent \in AgentIdInputs, child \in AgentIdInputs,
          task \in TaskInputs, psess \in SessionInputs, timeout \in TimeoutInputs :
            run_delegation(c, parent, child, task, psess, timeout)
    \/ \E c \in Calls, out \in SomeOutcomes : AskReturn(c, out)

SpecRequest == Init /\ [][NextRequest]_vars

\* the process of instance h stops answering its aliveness probe (the process
\* is whatever process_factory builds; GeminiProcess itself never does)
BackendLost(h) ==
    /\ inst[h].alive
    /\ inst' = [inst EXCEPT ![h].alive = FALSE]
    /\ UNCHANGED <<agents, runs, disk, calls, ret, health, admin, returned, now, store, thr, ledger, doc, em, lk>>

\* direct assignments to one agent whose backend can be lost, with every
\* outcome of process.ask and of the append of the reply
NextAgent ==
    \/ \E c \in Calls, id \in Personas : BridgeGet(c, id)
    \/ \E c \in Calls : BridgeAssign(c)
    \/ \E c \in Calls : GateWake(c)
    \/ \E c \in Calls, out \in AskOutcomes \cup AppendFailures : AskReturn(c, out)
    \/ \E h \in DOMAIN inst : BackendLost(h)

SpecAgent == Init /\ [][NextAgent]_vars

\* the health loop next to explicit stops: delegations that make agents
\* stuck, the loop, the stop route and the clock
NextHealth ==
    \/ \E c \in 1..MaxRequests, child \in Personas :
            delegate_task(c, NoCall, C, child, <<"do X">>, <<"s1">>, Fl(1), TRUE)
    \/ \E c \in Calls : GateWake(c)
    \/ \E c \in Calls : AskReturn(c, [ok |-> TRUE, text |-> <<"out">>])
    \/ \E first \in Personas : HealthPass(first, Personas)
    \/ HealthKilled(Personas)
    \/ \E id \in Personas : AdminStop(id)
    \/ AdminKilled
    \/ Tick

SpecHealth == Init /\ [][NextHealth]_vars

\* delegations whose tasks may never end, the health loop with restarts that
\* can raise, and the clock
NextSweep ==
    \/ \E c \in 1..MaxRequests, child \in Personas :
            delegate_task(c, NoCall, C, child, <<"do X">>, <<"s1">>, Fl(1), TRUE)
    \/ \E c \in Calls : GateWake(c)
    \/ \E c \in Calls : AskReturn(c, [ok |-> TRUE, text |-> <<"out">>])
    \/ \E first \in Personas, mcp \in SUBSET Personas : HealthPass(first, mcp)
    \/ \E mcp \in SUBSET Personas : HealthKilled(mcp)
    \/ Tick

\* the event loop resumes the health loop: asyncio.sleep returns after the
\* interval and process.kill() returns once the subprocess has exited. No
\* fairness for the tasks: process.ask may wait for ever
SpecSweep ==
    /\ Init
    /\ [][NextSweep]_vars
    /\ WF_vars(\E first \in Personas, mcp \in SUBSET Personas : HealthPass(first, mcp))
    /\ WF_vars(\E mcp \in SUBSET Personas : HealthKilled(mcp))

\* the shutdown next to delegations that start their child, the health loop
\* and the clock
NextStopAll ==
    \/ \E c \in 1..MaxRequests, child \in Personas :
            delegate_task(c, NoCall, C, child, <<"do X">>, <<"s1">>, Fl(1), TRUE)
    \/ \E c \in Calls : GateWake(c)
    \/ \E c \in Calls : AskReturn(c, [ok |-> TRUE, text |-> <<"out">>])
    \/ \E first \in Personas : HealthPass(first, Personas)
    \/ HealthKilled(Personas)
    \/ stop_all
    \/ \E first \in Personas : StopAllResumed(first)
    \/ Tick

SpecStopAll == Init /\ [][NextStopAll]_vars

\* the health loop over agents that get stuck and agents whose backend is lost
NextInspect ==
    \/ \E c \in 1..MaxRequests, child \in Personas :
            delegate_task(c, NoCall, C, child, <<"do X">>, <<"s1">>, Fl(1), TRUE)
    \/ \E c \in Calls : GateWake(c)
    \/ \E c \in Calls : AskReturn(c, [ok |-> TRUE, text |-> <<"out">>])
    \/ \E h \in DOMAIN inst : BackendLost(h)
    \/ \E first \in Personas : HealthPass(first, Personas)
    \/ HealthKilled(Personas)
    \/ Tick

SpecInspect == Init /\ [][NextInspect]_vars

(***************************************************************************)
(* The memory of one agent.                                                *)
(***************************************************************************)
\* MemoryManager.append_message, the whole call under the session lock
append_message(kind, fail, flush) ==
    /\ store.appended < MaxAppends
    /\ store' = memory_append(store, kind, fail, flush)
    /\ UNCHANGED <<agents, inst, runs, disk, calls, ret, health, admin, returned, now, thr, ledger, doc, em, lk>>

\* start_agent constructs a new MemoryManager over the same directory
Reopen ==
    /\ store.message_counts # NoCount
    /\ store' = [store EXCEPT !.message_counts = NoCount]
    /\ UNCHANGED <<agents, inst, runs, disk, calls, ret, health, admin, returned, now, thr, ledger, doc, em, lk>>

\* CompactionEngine.maybe_compact(session_id) called on the session as it
\* is, no count and no callback passed: the count is the cached one, or the
\* messages of the file when none is cached
compact_again ==
    /\ LET count == IF store.message_counts # NoCount THEN store.message_counts
                    ELSE Len(Messages(store.file))
           st == [Called(store, "compact") EXCEPT !.message_counts = count]
       IN store' = maybe_compact(st, count, "none", "none")
    /\ UNCHANGED <<agents, inst, runs, disk, calls, ret, health, admin, returned, now, thr, ledger, doc, em, lk>>

\* SessionStore.append_message called on the store itself
AppendCall ==
    /\ store.appended < MaxAppends
    /\ LET m == store.appended + 1
       IN store' = session_append([Called(store, "append") EXCEPT !.appended = m,
                                                                 !.kinds = Append(@, "user")], m)
    /\ UNCHANGED <<agents, inst, runs, disk, calls, ret, health, admin, returned, now, thr, ledger, doc, em, lk>>

\* SessionStore.rewrite_session called with the entries of the file from
\* entry `from` on; fail is the step that raises, if any
RewriteCall(from, fail) ==
    /\ from \in 1..(Len(store.file) + 1)
    /\ store' = rewrite_session(Called(store, "rewrite"),
                                SubSeq(store.file, from, Len(store.file)), fail)
    /\ UNCHANGED <<agents, inst, runs, disk, calls, ret, health, admin, returned, now, thr, ledger, doc, em, lk>>

\* SessionStore.read_messages(session_id, limit); limit -1 stands for None,
\* the only limit with which the count is cached
read_messages(limit) ==
    /\ store' = [Called(store, "read") EXCEPT
                    !.message_counts = IF limit = 0 - 1 THEN Len(Messages(store.file)) ELSE @]
    /\ UNCHANGED <<agents, inst, runs, disk, calls, ret, health, admin, returned, now, thr, ledger, doc, em, lk>>

\* SessionStore.message_count: the cached count, or the count of the file,
\* which is then cached
message_count ==
    /\ store' = [Called(store, "count") EXCEPT
                    !.message_counts = IF @ # NoCount THEN @ ELSE Len(Messages(store.file))]
    /\ UNCHANGED <<agents, inst, runs, disk, calls, ret, health, admin, returned, now, thr, ledger, doc, em, lk>>

\* a thread calls append_message and comes to the session lock
ThreadCall(t) ==
    /\ thr.pc[t] = "idle"
    /\ store.appended + Cardinality({u \in Threads : thr.pc[u] \in {"wait", "append"}})
          < MaxAppends
    /\ thr' = [thr EXCEPT !.pc[t] = "wait",
                          !.waited = @ \/ \E u \in Threads : thr.pc[u] = "rewrite"]
    /\ UNCHANGED <<agents, inst, runs, disk, calls, ret, health, admin, returned, now, store, ledger, doc, em, lk>>

\* with self.sessions.session_lock(session_id)
ThreadLock(t) ==
    /\ thr.pc[t] = "wait"
    /\ session_lock(thr, t)
    /\ thr' = [thr EXCEPT !.lock = t, !.pc[t] = "append"]
    /\ UNCHANGED <<agents, inst, runs, disk, calls, ret, health, admin, returned, now, store, ledger, doc, em, lk>>

\* self.sessions.append_message and self.sessions.message_count
ThreadAppend(t) ==
    /\ thr.pc[t] = "append"
    /\ LET m == store.appended + 1
       IN store' = session_append([Called(store, "append") EXCEPT !.appended = m,
                                                                 !.kinds = Append(@, "user")], m)
    /\ thr' = [thr EXCEPT !.pc[t] = "read"]
    /\ UNCHANGED <<agents, inst, runs, disk, calls, ret, health, admin, returned, now, ledger, doc, em, lk>>

\* maybe_compact up to the summary of the messages to compact
ThreadRead(t) ==
    /\ thr.pc[t] = "read"
    /\ LET messages == Messages(store.file)
           compacts == /\ store.message_counts >= store.compact_threshold
                       /\ Len(messages) >= store.compact_threshold
                       /\ Len(messages) - KeepCount(store, Len(messages)) > 0
       IN /\ store' = IF store.message_counts >= store.compact_threshold
                      THEN [store EXCEPT !.message_counts = Len(messages)]
                      ELSE store
          /\ thr' = [thr EXCEPT !.pc[t] = IF compacts THEN "rewrite" ELSE "unlock",
                                !.messages[t] = IF compacts THEN messages ELSE <<>>]
    /\ UNCHANGED <<agents, inst, runs, disk, calls, ret, health, admin, returned, now, ledger, doc, em, lk>>

\* maybe_compact from rewrite_session on, over the messages it read
ThreadRewrite(t) ==
    /\ thr.pc[t] = "rewrite"
    /\ LET messages == thr.messages[t]
           compact_count == Len(messages) - KeepCount(store, Len(messages))
           compacted == SubSeq(messages, 1, compact_count)
           kept == SubSeq(messages, compact_count + 1, Len(messages))
           r == rewrite_session(store, <<CompactionRecord(compacted, kept)>> \o kept, "none")
       IN /\ store' = [r EXCEPT !.compactions = @ + 1, !.compacted = TRUE]
          /\ thr' = [thr EXCEPT !.pc[t] = "unlock",
                                !.messages[t] = <<>>,
                                !.gone = @ \o [i \in 1..compact_count |-> compacted[i].m]]
    /\ UNCHANGED <<agents, inst, runs, disk, calls, ret, health, admin, returned, now, ledger, doc, em, lk>>

\* the session lock released, append_message returns
ThreadUnlock(t) ==
    /\ thr.pc[t] = "unlock"
    /\ thr' = [thr EXCEPT !.pc[t] = "idle", !.lock = IF @ = t THEN 0 ELSE @]
    /\ UNCHANGED <<agents, inst, runs, disk, calls, ret, health, admin, returned, now, store, ledger, doc, em, lk>>

\* threads appending to one session of one MemoryManager; the notes and the
\* candidate ledger are left out
NextThreads ==
    \/ \E t \in Threads : ThreadCall(t)
    \/ \E t \in Threads : ThreadLock(t)
    \/ \E t \in Threads : ThreadAppend(t)
    \/ \E t \in Threads : ThreadRead(t)
    \/ \E t \in Threads : ThreadRewrite(t)
    \/ \E t \in Threads : ThreadUnlock(t)

SpecThreads == InitMemory /\ [][NextThreads]_vars

\* CandidateStore.ingest(candidates), the whole call
ingest(candidates) ==
    /\ \A t \in Threads : ledger.pc[t] = "idle"
    /\ ledger.taken + Len(candidates) <= MaxObservations
    /\ ledger' = ingest_write(ingest_read(ledger, 1, candidates), 1)
    /\ UNCHANGED <<agents, inst, runs, disk, calls, ret, health, admin, returned, now, store, thr, doc, em, lk>>

\* a thread's ingest reads the ledger and works on what it read
IngestRead(t, candidates) ==
    /\ ledger.pc[t] = "idle"
    /\ ledger.taken + Len(candidates) <= MaxObservations
    /\ ledger' = ingest_read(ledger, t, candidates)
    /\ UNCHANGED <<agents, inst, runs, disk, calls, ret, health, admin, returned, now, store, thr, doc, em, lk>>

\* a thread's ingest writes the ledger and returns
IngestWrite(t) ==
    /\ ledger.pc[t] = "write"
    /\ ledger' = ingest_write(ledger, t)
    /\ UNCHANGED <<agents, inst, runs, disk, calls, ret, health, admin, returned, now, store, thr, doc, em, lk>>

\* a half-life passes
NextDay ==
    /\ ledger.today < MaxDays
    /\ ledger' = [ledger EXCEPT !.today = @ + 1]
    /\ UNCHANGED <<agents, inst, runs, disk, calls, ret, health, admin, returned, now, store, thr, doc, em, lk>>

\* maybe_compact and maybe_extract_candidates from candidate_store.ingest on:
\* the ledger is written, then the procedures that ingest returned are
\* upserted into PROCEDURES.md. stop tells that the call ends between the two
\* writes: upsert_procedures raises before it writes, or the process stops
ingest_and_upsert(candidates, stop) ==
    /\ \A t \in Threads : ledger.pc[t] = "idle"
    /\ ledger.taken + Len(candidates) <= MaxObservations
    /\ ledger' = ingest_write(ingest_read(ledger, 1, candidates), 1)
    /\ LET promoted == [i \in DOMAIN ledger'.promoted |->
                           [title |-> ledger'.promoted[i],
                            trigger |-> ledger'.promoted[i],
                            steps |-> <<1, 2, 3>>,
                            weight |-> ledger'.file[ledger'.promoted[i]].weight \div 10,
                            status |-> "permanent",
                            first_seen |-> 1,
                            last_seen |-> 1]]
       IN doc' = IF promoted = <<>> \/ stop THEN doc
                 ELSE [doc EXCEPT !.file = upsert_procedures(@, promoted)]
    /\ UNCHANGED <<agents, inst, runs, disk, calls, ret, health, admin, returned, now, store, thr, em, lk>>

\* a CandidateStore constructed with any of the thresholds
InitLedger ==
    /\ InitRegistry
    /\ store = NewStore(40, 25)
    /\ thr = NewThreads
    /\ \E usable \in {100, 200, 300}, permanent \in {200, 300, 500} :
          ledger = NewLedger(usable, permanent)
    /\ doc = NewDocument
    /\ em = NewEmitter(500)
    /\ lk = NewLocks

\* ingest calls one after the other while days pass; candidate 0 has no
\* trigger or no steps
NextLedger ==
    \/ \E candidates \in UNION {[1..n -> 0..MaxTriggers] : n \in 1..MaxBatch} :
          ingest(candidates)
    \/ NextDay

SpecLedger == InitLedger /\ [][NextLedger]_vars

\* extractions one after the other while days pass, any of which may end
\* between the write of the ledger and the write of PROCEDURES.md
NextPromotion ==
    \/ \E candidates \in UNION {[1..n -> 0..MaxTriggers] : n \in 1..MaxBatch},
          stop \in BOOLEAN : ingest_and_upsert(candidates, stop)
    \/ NextDay

SpecPromotion == InitLedger /\ [][NextPromotion]_vars

\* ingest calls of several threads on one day, each with one candidate
NextLedgerThreads ==
    \/ \E t \in Threads, g \in Triggers : IngestRead(t, <<g>>)
    \/ \E t \in Threads : IngestWrite(t)

SpecLedgerThreads == InitLedger /\ [][NextLedgerThreads]_vars

\* a client adds a line to the document it will send
EditDocument(line) ==
    /\ doc.writes < MaxWrites
    /\ Len(doc.draft) < MaxLines
    /\ doc' = [doc EXCEPT !.draft = Append(@, line)]
    /\ UNCHANGED <<agents, inst, runs, disk, calls, ret, health, admin, returned, now, store, thr, ledger, em, lk>>

\* PUT /agents/{id}/procedures with the document:
\* MemoryManager.write_procedures(content)
write_procedures ==
    /\ doc.writes < MaxWrites
    /\ LET procedures == parse_markdown(doc.draft)
       IN doc' = IF procedures = <<>> /\ ~is_empty_procedure_document(doc.draft)
                 THEN [doc EXCEPT !.draft = <<>>, !.writes = @ + 1, !.raised = TRUE]
                 ELSE [doc EXCEPT !.draft = <<>>, !.writes = @ + 1, !.raised = FALSE,
                                  !.file = save_procedures(procedures)]
    /\ UNCHANGED <<agents, inst, runs, disk, calls, ret, health, admin, returned, now, store, thr, ledger, em, lk>>

\* documents written to PROCEDURES.md one after the other, of free text,
\* headings and triggers with and without text, the steps heading and steps
NextProcedures ==
    \/ \E line \in {<<"top">>, <<"text">>, <<"title", NoText>>, <<"title", 1>>,
                      <<"trigger", NoText>>, <<"trigger", 1>>, <<"steps">>, <<"step", 1>>} :
          EditDocument(line)
    \/ write_procedures

SpecProcedures == Init /\ [][NextProcedures]_vars

\* AgentEventEmitter.on_event
on_event ==
    /\ em.listeners < MaxListeners
    /\ em' = [em EXCEPT !.listeners = @ + 1]
    /\ UNCHANGED <<agents, inst, runs, disk, calls, ret, health, admin, returned, now, store, thr, ledger, doc, lk>>

\* emit, under the lock: the sequence number of the event
EmitSeq(t, run_id) ==
    /\ em.pc[t] = "idle"
    /\ em.emits < MaxEmits
    /\ LET seq == next_seq(em.seq_counters[run_id])
       IN em' = [em EXCEPT !.pc[t] = "record",
                           !.emits = @ + 1,
                           !.seq_counters[run_id] = seq,
                           !.event[t] = <<run_id, seq>>,
                           !.assigned[run_id] = Append(@, seq)]
    /\ UNCHANGED <<agents, inst, runs, disk, calls, ret, health, admin, returned, now, store, thr, ledger, doc, lk>>

\* emit from its second locked block to its end: the listeners copied and
\* the event recorded under the lock, then the copied listeners called and
\* the event file written, which touch nothing the threads share;
\* _persist_event may fail with an OSError, which emit does not catch
EmitRecord(t, outcomes, persist) ==
    /\ em.pc[t] = "record"
    /\ LET n == notify(em.listeners, outcomes)
           recorded == Append(em.recorded, em.event[t])
       IN em' = [em EXCEPT !.pc[t] = "idle",
                           !.event[t] = <<0, 0>>,
                           !.recent = Trimmed(Append(@, em.event[t]), em.max_recent),
                           !.recorded = recorded,
                           !.last = [done |-> TRUE,
                                     recorded |-> recorded[Len(recorded)] = em.event[t],
                                     notified |-> n.notified,
                                     outcomes |-> outcomes,
                                     persist |-> IF n.raised THEN "skipped" ELSE persist,
                                     raised |-> n.raised \/ persist = "failed"]]
    /\ UNCHANGED <<agents, inst, runs, disk, calls, ret, health, admin, returned, now, store, thr, ledger, doc, lk>>

\* an emitter of any size of its buffer
InitEvents ==
    /\ InitRegistry
    /\ store = NewStore(40, 25)
    /\ thr = NewThreads
    /\ ledger = NewLedger(USABLE_THRESHOLD, PERMANENT_THRESHOLD)
    /\ doc = NewDocument
    /\ \E max_recent \in 0..2 : em = NewEmitter(max_recent)
    /\ lk = NewLocks

\* threads that emit events of several runs, and subscribers that come
NextEvents ==
    \/ on_event
    \/ \E t \in Threads, run_id \in 1..MaxRunIds : EmitSeq(t, run_id)
    \/ \E t \in Threads, outcomes \in [1..em.listeners -> {"ok", "raised"}],
          persist \in {"ok", "failed"} : EmitRecord(t, outcomes, persist)

SpecEvents == InitEvents /\ [][NextEvents]_vars

\* MemoryManager.append_message enters session_lock: _lock_for_session goes
\* for the lock of the table of session locks
LockCall(t, session) ==
    /\ lk.th[t].pc = "idle"
    /\ lk' = Requested([lk EXCEPT !.th[t].pc = "lock_for_session",
                                  !.th[t].session = session,
                                  !.th[t].block = 0], t, <<"table", 0>>)
    /\ UNCHANGED <<agents, inst, runs, disk, calls, ret, health, admin, returned, now, store, thr, ledger, doc, em>>

\* Lock.acquire / RLock.acquire returns: the lock is free
Acquire(t) ==
    /\ lk.th[t].want # NoLock
    /\ lk.owner[lk.th[t].want] = 0
    /\ lk' = [lk EXCEPT !.owner[lk.th[t].want] = t,
                        !.th[t].held = Append(@, lk.th[t].want),
                        !.th[t].want = NoLock]
    /\ UNCHANGED <<agents, inst, runs, disk, calls, ret, health, admin, returned, now, store, thr, ledger, doc, em>>

\* _lock_for_session returns the RLock of the key and leaves the table lock;
\* session_lock goes for the RLock
LockForSession(t) ==
    /\ lk.th[t].pc = "lock_for_session"
    /\ lk.th[t].want = NoLock
    /\ lk' = Requested([Released(lk, t) EXCEPT !.th[t].pc = "session"], t,
                       <<"session", lk.th[t].session>>)
    /\ UNCHANGED <<agents, inst, runs, disk, calls, ret, health, admin, returned, now, store, thr, ledger, doc, em>>

\* append_message, holding the lock of its session, goes for the lock of a
\* later block
Enter(t, block) ==
    /\ lk.th[t].pc = "session"
    /\ lk.th[t].want = NoLock
    /\ Len(lk.th[t].held) = 1
    /\ block > lk.th[t].block
    /\ block <= Len(append_message_blocks(lk.th[t].session))
    /\ lk' = Requested([lk EXCEPT !.th[t].block = block], t,
                       append_message_blocks(lk.th[t].session)[block])
    /\ UNCHANGED <<agents, inst, runs, disk, calls, ret, health, admin, returned, now, store, thr, ledger, doc, em>>

\* the end of a with block inside append_message
Leave(t) ==
    /\ lk.th[t].pc = "session"
    /\ lk.th[t].want = NoLock
    /\ Len(lk.th[t].held) = 2
    /\ lk' = Released(lk, t)
    /\ UNCHANGED <<agents, inst, runs, disk, calls, ret, health, admin, returned, now, store, thr, ledger, doc, em>>

\* append_message returns, or raises what a block raised (the OSError of
\* upsert_procedures, say): every with block on the way releases its lock
Exit(t) ==
    /\ lk.th[t].pc = "session"
    /\ lk.th[t].want = NoLock
    /\ Len(lk.th[t].held) >= 1
    /\ LET inner == IF Len(lk.th[t].held) = 2 THEN Released(lk, t) ELSE lk
       IN lk' = [Released(inner, t) EXCEPT !.th[t].pc = "idle",
                                           !.th[t].session = 1,
                                           !.th[t].block = 0]
    /\ UNCHANGED <<agents, inst, runs, disk, calls, ret, health, admin, returned, now, store, thr, ledger, doc, em>>

\* an agent emits an event of its own, or a client subscribes: the emitter
\* lock alone
EmitCall(t) ==
    /\ lk.th[t].pc = "idle"
    /\ lk' = Requested([lk EXCEPT !.th[t].pc = "emit"], t, <<"emitter", 0>>)
    /\ UNCHANGED <<agents, inst, runs, disk, calls, ret, health, admin, returned, now, store, thr, ledger, doc, em>>

\* the end of the with block of emit or on_event
EmitReturn(t) ==
    /\ lk.th[t].pc = "emit"
    /\ lk.th[t].want = NoLock
    /\ lk' = [Released(lk, t) EXCEPT !.th[t].pc = "idle"]
    /\ UNCHANGED <<agents, inst, runs, disk, calls, ret, health, admin, returned, now, store, thr, ledger, doc, em>>

InitLocks ==
    /\ InitRegistry
    /\ store = NewStore(40, 25)
    /\ thr = NewThreads
    /\ ledger = NewLedger(USABLE_THRESHOLD, PERMANENT_THRESHOLD)
    /\ doc = NewDocument
    /\ em = NewEmitter(500)
    /\ lk = NewLocks

\* threads that append to the sessions of one agent and emit events
NextLocks ==
    \/ \E t \in Threads, session \in 1..MaxSessions : LockCall(t, session)
    \/ \E t \in Threads : Acquire(t)
    \/ \E t \in Threads : LockForSession(t)
    \/ \E t \in Threads, block \in 1..5 : Enter(t, block)
    \/ \E t \in Threads : Leave(t)
    \/ \E t \in Threads : Exit(t)
    \/ \E t \in Threads : EmitCall(t)
    \/ \E t \in Threads : EmitReturn(t)

SpecLocks == InitLocks /\ [][NextLocks]_vars

\* appends to one session while the file system works
NextCompaction ==
    \/ \E kind \in {"user", "assistant", "procedure"} : append_message(kind, "none", "ok")

SpecCompaction == InitMemory /\ [][NextCompaction]_vars

\* appends to one session whose rewrites may fail at any step
NextRewrite ==
    \/ \E fail \in RewriteFailures \cup {"none"} : append_message("user", fail, "ok")
    \/ Reopen

SpecRewrite == InitMemory /\ [][NextRewrite]_vars

\* appends whose rewrite may fail at the rename, and maybe_compact called on
\* the session between them
NextIdempotent ==
    \/ \E fail \in {"none", "replace"} : append_message("user", fail, "ok")
    \/ compact_again

SpecIdempotent == InitMemory /\ [][NextIdempotent]_vars

\* appends of user messages and of replies that list steps to one session; a
\* rewrite may fail at any step and the flush of the compacted messages to
\* MEMORY.md may raise
NextMemory ==
    \/ \E kind \in {"user", "procedure"}, fail \in RewriteFailures \cup {"none"}, flush \in {"ok", "raised"} :
          append_message(kind, fail, flush)

SpecMemory == InitMemory /\ [][NextMemory]_vars

\* the calls of a SessionStore on one session, in any order; the store is
\* constructed anew over the same directory now and then
NextSessions ==
    \/ AppendCall
    \/ \E from \in 1..(MaxAppends + 1), fail \in RewriteFailures \cup {"none"} :
          RewriteCall(from, fail)
    \/ \E limit \in {0 - 1, 1, 2} : read_messages(limit)
    \/ message_count
    \/ Reopen

SpecSessions == InitMemory /\ [][NextSessions]_vars

(***************************************************************************)
(* Properties.                                                             *)
(***************************************************************************)
\* the calls that are inside agent.assign of instance h
Inside(h) == {c \in Calls : calls[c].pc = "asking" /\ calls[c].h = h}

\* C1: on one runtime handle at most one call is inside the wrapped
\* agent.assign at any time, whether it came from a direct caller or from
\* delegate_task
OneCallInsideAssign == \A h \in DOMAIN inst : Cardinality(Inside(h)) <= 1

\* a delegated task is inside agent.assign while a direct caller waits at the
\* gate of the same handle
OneCallInsideAssignSeen ==
    \E c, d \in Calls :
        /\ calls[c].pc = "asking" /\ calls[c].kind = "delegate"
        /\ calls[d].pc = "waiting" /\ calls[d].kind = "assign"
        /\ calls[c].h = calls[d].h

\* the calls whose task is executing on some instance of agent id
Executing(id) == {c \in Calls : calls[c].pc = "asking" /\ inst[calls[c].h].id = id}

\* C2: for one agent id at most one task is executing at any time, also when
\* restart_agent or the health loop replaces the handle while a task is
\* running or queued on the old handle
OneTaskPerAgentId == \A id \in Personas : Cardinality(Executing(id)) <= 1

Terminal == {"completed", "failed", "timed_out"}

StatusEdges ==
    {<<"registered", "running">>, <<"running", "completed">>, <<"running", "failed">>,
     <<"running", "timed_out">>}

\* C3: under every interleaving of delegate_task with the sweep of the health
\* loop, the status of a run changes only from registered to running and from
\* running to completed, failed or timed_out, and a run in a terminal status
\* keeps its status, result and error
RunLifecycle ==
    [][\A rid \in DOMAIN runs :
          /\ runs'[rid].status # runs[rid].status
                => <<runs[rid].status, runs'[rid].status>> \in StatusEdges
          /\ runs[rid].status \in Terminal => runs'[rid] = runs[rid]]_vars

\* C4: register_run raises, and leaves the run table and its file as they
\* were, when the parent, the child, the task or the parent session is blank
\* after trimming, when the timeout is not greater than 0, or when the
\* trimmed parent is the trimmed child: no run with such fields is ever in the
\* table or in the file, through register_run or through delegate_task
ValidRun(run) ==
    /\ run.parent_agent_id # <<>>
    /\ run.child_agent_id # <<>>
    /\ run.task # <<>>
    /\ run.parent_session_id # <<>>
    /\ FGt(run.timeout_s, Fl(0))
    /\ run.parent_agent_id # run.child_agent_id

OnlyValidRunsRegistered ==
    /\ \A rid \in DOMAIN runs : ValidRun(runs[rid])
    /\ \A rid \in DOMAIN disk : ValidRun(load_from_disk(disk)[rid])

\* check_timeouts is called in the steps of the health loop that end asleep
SweepStep == calls' = calls /\ now' = now /\ health'.pc = "sleep"

Age(run) == Fl(now - run.created_at)

\* C5: a running run whose age exceeds its timeout is made timed_out by the
\* next check_timeouts call and returned by it; a run that is not running, or
\* is still within its timeout, is neither changed nor returned; over all the
\* check_timeouts calls a run is returned at most once, and exactly once when
\* it was timed out
TimeoutsSweptOnce ==
    /\ [](\A rid \in DOMAIN runs :
            /\ returned[rid] <= 1
            /\ runs[rid].status = "timed_out" => returned[rid] = 1)
    /\ [][SweepStep =>
            \A rid \in DOMAIN runs :
                /\ runs[rid].status = "running" /\ FGt(Age(runs[rid]), runs[rid].timeout_s)
                     => /\ runs'[rid].status = "timed_out"
                        /\ returned'[rid] = returned[rid] + 1
                /\ runs[rid].status # "running" \/ FLeq(Age(runs[rid]), runs[rid].timeout_s)
                     => /\ runs'[rid] = runs[rid]
                        /\ returned'[rid] = returned[rid]]_vars

\* a sweep has timed out one run and left a running run that is within its
\* timeout
TimeoutsSweptOnceSeen ==
    \E rid, other \in DOMAIN runs :
        /\ runs[rid].status = "timed_out" /\ returned[rid] = 1
        /\ runs[other].status = "running" /\ returned[other] = 0

\* C6: when the child of a delegation cannot be started, because start_agent
\* reports failure or because the start attempt raises, the run ends failed
\* with an error message (it is not left registered or running) and no task
\* is assigned
ChildStartFailureFailsRun ==
    ret.how \in {"no_persona", "start_raised"}
        => /\ runs[ret.rid].status = "failed"
           /\ runs[ret.rid].error \notin {NoneVal, <<>>}
           /\ ret.h = NoInst

\* a call of delegate_task returns in this step
Returns(how) == ret' # ret /\ ret'.kind = "delegate" /\ ret'.how \in how

\* a call of delegate_task starts its child in this step
AutoStarts(c) ==
    /\ calls[c].pc = "new"
    /\ \/ calls'[c].autostart
       \/ ret' # ret /\ ret'.c = c /\ ret'.autostart /\ ret'.h # NoInst

BeingRestarted(id) == health'.pc \in {"killing", "crashed"} /\ health'.id = id

Stored(text) == IF strip(text) = <<>> THEN <<"Unknown failure">> ELSE strip(text)

\* C8: when child.assign returns or raises, the run is completed with the
\* result of the task exactly when the returned task is completed with a
\* result that is not None; otherwise the run is failed with the error text
\* of the task, the text of the exception, or a generic message
RunFollowsTask ==
    [][Returns({"task", "not_ready"}) =>
        LET r == ret'
            run == runs'[r.rid]
        IN IF r.how = "task" /\ r.status = "completed" /\ r.result # NoneVal
           THEN run.status = "completed" /\ run.result = r.result /\ run.error = NoneVal
           ELSE /\ run.status = "failed"
                /\ run.result = NoneVal
                /\ run.error = IF r.how = "not_ready" THEN Stored(r.raised)
                               ELSE IF r.error \in {NoneVal, <<>>}
                                    THEN <<"Delegated task failed">>
                                    ELSE Stored(r.error)]_vars

\* a delegated task has failed without an error text and its run carries the
\* generic message
RunFollowsTaskSeen ==
    /\ ret.kind = "delegate" /\ ret.how = "task"
    /\ ret.status = "failed" /\ ret.error = <<>>
    /\ runs[ret.rid].status = "failed"
    /\ runs[ret.rid].error = <<"Delegated task failed">>

\* call c cannot go on before call d has: c is queued behind the gate that d
\* holds, or the task of c is waiting on the delegate_task call d
WaitsFor(c, d) ==
    \/ calls[c].pc = "waiting" /\ calls[d].pc = "asking" /\ calls[d].h = calls[c].h
    \/ calls[c].pc = "asking" /\ calls[d].issuer = c /\ calls[d].pc \in {"waiting", "asking"}

RECURSIVE WaitPath(_, _, _)
WaitPath(c, d, n) ==
    IF n = 1 THEN WaitsFor(c, d)
    ELSE \E e \in Calls : WaitsFor(c, e) /\ WaitPath(e, d, n - 1)

\* C9: delegation cannot deadlock the per-agent gates: in no reachable state
\* is there a cycle of agents in which the running task of each waits on a
\* delegate_task call whose child task is held up by the gate of the next
NoDelegationCycle == \A c \in Calls, n \in 1..MaxCalls : ~WaitPath(c, c, n)

\* call c goes into agent.assign in this step
Enters(c) == calls[c].pc # "asking" /\ calls'[c].pc = "asking"

\* call c is put behind the gate in this step
Queues(c) == calls[c].pc # "waiting" /\ calls'[c].pc = "waiting"

\* C10: the tasks of one runtime handle enter agent.assign in the order of
\* their RegisteredAgent.assign calls, a later call never overtaking one that
\* still waits for the gate, and a call waits only for calls on its own handle
GateIsFifo ==
    [][\A c \in Calls :
          /\ Enters(c) =>
                \A d \in Calls \ {c} :
                    calls[d].pc = "waiting" /\ calls[d].h = calls'[c].h
                        => calls[c].pc = "waiting" /\ calls[c].ticket < calls[d].ticket
          /\ Queues(c) =>
                \E d \in Calls \ {c} :
                    calls[d].h = calls'[c].h /\ calls[d].pc \in {"asking", "waiting"}]_vars

\* a call that has waited for the gate is inside agent.assign while a call
\* made later still waits for the gate of the same handle
GateIsFifoSeen ==
    \E c, d \in Calls :
        /\ calls[c].pc = "asking" /\ calls[c].ticket > 0
        /\ calls[d].pc = "waiting" /\ calls[d].h = calls[c].h
        /\ calls[d].ticket > calls[c].ticket

\* C11: an explicit stop is final for an agent instance: once stop() has set
\* its state to stopped the state stays stopped, whatever an assign that was
\* in flight on the instance when stop was called does afterwards
StopIsFinal ==
    [][\A h \in DOMAIN inst :
          inst[h].state = "stopped" => inst'[h].state = "stopped"]_vars

\* GeminiAgent.assign of call c returns in this step, process.ask having ended
AssignReturns(c) == calls[c].pc = "asking" /\ calls'[c].pc = "done"

TaskImmutableOnceTerminal ==
    ret.how = "task" =>
        /\ ret.status = ret.settled
        /\ ret.settled = "completed" => ret.error = NoneVal

\* instance h has been started and has not been stopped
Live(h) == inst[h].state \in {"idle", "busy"}

\* C14: start_agent is idempotent per id: called for an id that is in the
\* runtime map, or next to another start of the same id, it never leaves a
\* second started instance for that id; every instance whose start()
\* completed is the one stored in the runtime map or has been stopped
OneStartedInstancePerId ==
    \A h \in DOMAIN inst :
        Live(h) => \/ agents[inst[h].id] = h
                   \/ ~\E g \in DOMAIN inst : g # h /\ inst[g].id = inst[h].id /\ Live(g)

\* C15: in a pass of the health loop an agent reported dead or stuck is
\* restarted only if its id is in the runtime map when the restart is carried
\* out; an agent that was explicitly stopped between the snapshot and the
\* restart is not started again by the loop (the steps that leave the calls
\* alone and construct an instance are those of the loop)
RestartsOnlyPresent ==
    [][calls' = calls =>
          \A h \in DOMAIN inst' \ DOMAIN inst :
              \/ agents[inst'[h].id] # NoInst
              \/ health.pc = "killing" /\ health.id = inst'[h].id]_vars

\* the loop waits for the subprocess of the stuck agent a while agent b, the
\* next issue of its snapshot, has been stopped through the API
RestartsOnlyPresentSeen ==
    /\ health.pc = "killing" /\ health.id = A /\ health.issues = <<B>>
    /\ agents[B] = NoInst
    /\ admin.pc = "idle"
    /\ \E h \in DOMAIN inst : inst[h].id = B /\ inst[h].state = "stopped"

\* how long instance h has been busy; an agent that carries no busy_since has
\* not been busy for any time
BusyFor(h) == IF inst[h].busy_since = NoTime THEN 0 - 1 ELSE now - inst[h].busy_since

\* C16: inspect reports an agent stuck exactly when it is Busy and has been
\* busy for longer than the stuck timeout, dead exactly when it is not Busy,
\* not Stopped, not Starting and its aliveness probe fails, and nothing
\* otherwise: one answer per agent, and a Busy agent always carries the time
\* since when it is busy; the issues a pass still has to handle name no agent
\* twice
InspectReportsExactly ==
    /\ \A h \in DOMAIN inst :
          LET r == inspect(inst, h, now)
          IN /\ r \in {"stuck", "dead", "ok"}
             /\ r = "stuck" <=> (inst[h].state = "busy" /\ BusyFor(h) > StuckTimeout)
             /\ r = "dead" <=> (/\ inst[h].state \notin {"busy", "stopped", "starting"}
                                /\ ~inst[h].alive)
             /\ inst[h].state = "busy" => inst[h].busy_since # NoTime
    /\ \A i, j \in DOMAIN health.issues : i # j => health.issues[i] # health.issues[j]

\* a pass found agent a stuck and agent b dead: it waits for the subprocess of
\* a and has b, whose backend is lost, left to restart
InspectReportsExactlySeen ==
    /\ health.pc = "killing" /\ health.id = A /\ health.issues = <<B>>
    /\ agents[B] # NoInst /\ inspect(inst, agents[B], now) = "dead"
    /\ inspect(inst, health.h, now) = "stuck"

\* C17: after every operation of the SubagentRegistry has returned, the file
\* holds the payload of the table in memory, and a registry constructed over
\* the same directory loads the same runs: same ids, statuses, results and
\* errors
FileMirrorsTable ==
    /\ disk = save_to_disk(runs)
    /\ DOMAIN load_from_disk(disk) = DOMAIN runs
    /\ \A rid \in DOMAIN runs :
          LET loaded == load_from_disk(disk)[rid]
          IN /\ loaded.status = runs[rid].status
             /\ loaded = runs[rid]

\* the file after register_run, mark_running, complete_run, fail_run and
\* check_timeouts have all written it: it holds a completed run with its
\* result and a timed-out run with its error
FileMirrorsTableSeen ==
    /\ \E rid \in DOMAIN disk :
          /\ disk[rid].status = JStr(<<"completed">>)
          /\ disk[rid].result = JStr(<<"out">>)
          /\ disk[rid].error = JNull
    /\ \E rid \in DOMAIN disk :
          /\ disk[rid].status = JStr(<<"timed_out">>)
          /\ disk[rid].error # JNull
          /\ runs[rid].status = "timed_out"

\* the step is taken for run rid: by the call that carries it, or by the
\* sweep of the health loop when the run has expired
Mutates(rid) ==
    \/ \E c \in Calls : calls'[c] # calls[c] /\ calls[c].rid = rid
    \/ calls' = calls /\ Expired(runs[rid], now)

\* C18: mutations of different runs that overlap in time never lose an
\* update: a step changes only the run it is taken for, every other run keeps
\* what the earlier mutations gave it, and whenever the file is written it
\* holds the present record of every run
NoLostUpdate ==
    [][\A rid \in DOMAIN runs :
          /\ rid \in DOMAIN runs'
          /\ runs'[rid] # runs[rid] => Mutates(rid)
          /\ disk' # disk => /\ rid \in DOMAIN disk'
                             /\ disk'[rid] = asdict(runs'[rid])]_vars

\* run r1 was registered, marked running and completed while the older run
\* r2 was running; r2 has since failed, and the file holds both outcomes
NoLostUpdateSeen ==
    \E r1, r2 \in DOMAIN runs :
        /\ r2 < r1
        /\ runs[r1].status = "completed" /\ disk[r1].status = JStr(<<"completed">>)
        /\ runs[r2].status = "failed" /\ disk[r2].status = JStr(<<"failed">>)
        /\ disk[r1].result = JStr(<<"out">>)
        /\ ret.how = "task" /\ ret.status = "failed"

\* the store as rewrite_session finds it in the next append_message: the
\* message appended and the messages read
BeforeRewrite ==
    LET st == session_append(store, store.appended + 1)
    IN [st EXCEPT !.message_counts = Len(Messages(st.file))]

\* C19: when rewrite_session fails at any step (creating or writing the temp
\* file, fsync, the rename over the session file), the error reaches the
\* caller, the session file is what it was before the call, no temp file is
\* left, and the cached message count is unchanged
RewriteFailureLeavesSession ==
    [][(store'.appended # store.appended /\ store'.rewrite \in RewriteFailures) =>
          /\ store'.raised
          /\ store'.file = BeforeRewrite.file
          /\ store'.tmp = store.tmp
          /\ store'.message_counts = BeforeRewrite.message_counts]_vars

\* a compaction whose rename failed: the error was raised and the session
\* still holds every message, the threshold reached
RewriteFailureLeavesSessionSeen ==
    /\ store.rewrite = "replace" /\ store.raised
    /\ Len(Messages(store.file)) >= store.compact_threshold
    /\ store.compactions = 0
    /\ store.tmp = 0
    /\ store.message_counts = Len(store.file)

\* ceil(N * keepRatio): the least number of messages that is no less than the
\* ratio's share of N
KeepShare(N) ==
    CHOOSE k \in 0..N : /\ 100 * k >= N * store.compact_keep_ratio
                        /\ \A j \in 0..N : 100 * j >= N * store.compact_keep_ratio => k <= j

\* what the append that brings a fresh session to the threshold leaves when it
\* compacts: one compaction record and the last keep messages, in order
CompactedAtThreshold(keep) ==
    LET N == store.compact_threshold
    IN /\ store.compactions = 1
       /\ Len(store.file) = keep + 1
       /\ store.file[1].type = "compaction"
       /\ store.file[1].compacted_messages = N - keep
       /\ store.file[1].kept_messages = keep
       /\ \A i \in 1..keep : store.file[i + 1] = Message(N - keep + i)
       /\ store.message_counts = keep

SecondCompactIsNoOp ==
    [][(store.last = "compact" /\ store'.last = "compact"
          /\ store'.appended = store.appended) =>
          /\ ~store'.compacted
          /\ store'.file = store.file]_vars

\* C23: the after_compact callback runs only after rewrite_session succeeded:
\* when the rewrite of an append_message fails, the callback is not invoked,
\* the notes gain no Compaction section, the error comes out of
\* append_message, and the session holds every message it held plus the one
\* appended
CallbackOnlyAfterRewrite ==
    [][(store'.appended # store.appended /\ store'.rewrite \in RewriteFailures) =>
          /\ store'.callback = "none"
          /\ store'.notes = store.notes
          /\ store'.raised
          /\ ~store'.compacted
          /\ Messages(store'.file) = Messages(store.file) \o <<Message(store'.appended)>>]_vars

\* after a compaction that was flushed to the notes, a later compaction whose
\* rewrite failed: no callback ran and the notes still hold the one section
CallbackOnlyAfterRewriteSeen ==
    /\ store.rewrite \in RewriteFailures /\ store.raised
    /\ store.callback = "none"
    /\ store.compactions = 1 /\ store.notes = 1

\* C24: when the after_compact callback raises, maybe_compact still returns
\* true, the rewritten session stays, no exception reaches the caller of
\* append_message, and the compacted span is still searched for candidates
CallbackFailureIsSwallowed ==
    [][(store'.appended # store.appended /\ store'.callback = "raised") =>
          /\ store'.compacted
          /\ ~store'.raised
          /\ store'.rewrite = "done"
          /\ store'.file[1].type = "compaction"
          /\ store'.file[1].compacted_messages + store'.file[1].kept_messages
                = Len(Messages(store.file)) + 1
          /\ Len(Messages(store'.file)) = store'.file[1].kept_messages
          /\ store'.notes = store.notes
          /\ store'.extracted]_vars

\* an append whose compaction was rewritten, whose flush to the notes raised,
\* and whose compacted span gave a candidate to the ledger
CallbackFailureIsSwallowedSeen ==
    /\ store.last = "append" /\ store.callback = "raised"
    /\ store.compacted /\ ~store.raised
    /\ store.mined = <<"compaction">>

Numbers(file) == [i \in 1..Len(Messages(file)) |-> Messages(file)[i].m]

\* C22: appends and compactions on one session do not interleave: one thread
\* at a time is inside append_message, no append lands between the read and
\* the rewrite of a compaction, and no appended message is lost: the messages
\* compacted followed by the messages in the file are the messages appended,
\* in append order
AppendsAndCompactionsExclude ==
    /\ \A t \in Threads, u \in Threads :
          (t # u /\ thr.pc[t] \in {"append", "read", "rewrite", "unlock"})
             => thr.pc[u] \in {"idle", "wait"}
    /\ \A t \in Threads : thr.pc[t] = "rewrite" => Messages(store.file) = thr.messages[t]
    /\ thr.gone \o Numbers(store.file) = [i \in 1..store.appended |-> i]

\* every call has returned; one of them began while another thread was
\* compacting, and its message is the last of the file, after the record of
\* the compaction
AppendsAndCompactionsExcludeSeen ==
    /\ \A t \in Threads : thr.pc[t] = "idle"
    /\ thr.waited /\ thr.gone # <<>>
    /\ store.file[1].type = "compaction"
    /\ store.file[Len(store.file)] = Message(store.appended)
    /\ store.file[1].kept_messages < Len(Messages(store.file))

\* C26: over any sequence of ingest calls a trigger is returned in a
\* promoted list exactly once, by the call during which its status becomes
\* permanent, and by no other call, however often the trigger occurs in the
\* candidates of one call
PromotedExactlyOnce ==
    [][\A g \in Triggers :
          ledger'.promotions[g] - ledger.promotions[g] =
              IF ledger.file[g].status # "permanent" /\ ledger'.file[g].status = "permanent"
              THEN 1 ELSE 0]_vars

\* an ingest call given the same trigger twice returned it once: the first
\* of the two made it permanent and the second added to its weight
PromotedExactlyOnceSeen ==
    /\ ledger.candidates = <<1, 1>>
    /\ ledger.promoted = <<1>>
    /\ ledger.promotions[1] = 1
    /\ ledger.file[1].status = "permanent"
    /\ ledger.file[1].weight >= ledger.permanent_threshold + 100

\* the status that a weight has under the thresholds of the ledger
StatusOf(weight) ==
    IF weight >= ledger.permanent_threshold THEN "permanent"
    ELSE IF weight >= ledger.usable_threshold THEN "usable"
    ELSE "candidate"

\* C27: a candidate ingested k times with no day elapsed has stored weight
\* exactly k, and the status its weight has under the configured thresholds:
\* candidate below the usable threshold, usable from there up to the
\* permanent threshold, permanent from the permanent threshold on
WeightCountsObservations ==
    ledger.today = 0 =>
        \A g \in Triggers :
            ledger.observed[g] > 0 =>
                /\ ledger.file[g].weight = 100 * ledger.observed[g]
                /\ ledger.file[g].status = StatusOf(ledger.file[g].weight)

\* C28: an entry that is permanent stays permanent after every later ingest,
\* its stored weight never decreases, and its effective weight is its stored
\* weight whatever the days since it was last seen
PermanentStays ==
    /\ [](\A g \in Triggers :
            ledger.file[g].status = "permanent" =>
                effective_weight(ledger.file[g], ledger.today)
                    = [num |-> ledger.file[g].weight, den |-> 1])
    /\ [][\A g \in Triggers :
            ledger.file[g].status = "permanent" =>
                /\ ledger'.file[g].status = "permanent"
                /\ ledger'.file[g].weight >= ledger.file[g].weight]_vars

\* a permanent entry last seen days ago was observed again: its weight grew
\* by one from what was stored, with no decay
PermanentStaysSeen ==
    /\ ledger.promotions[1] = 1 /\ ledger.promoted = <<>>
    /\ ledger.candidates = <<1>>
    /\ ledger.file[1].status = "permanent"
    /\ ledger.file[1].last_seen = MaxDays
    /\ ledger.file[1].weight = ledger.permanent_threshold + 100

\* C29: ingests into one ledger do not interleave their read-modify-write:
\* when threads ingest observations of triggers that have an entry, the
\* stored weight counts every observation once all have returned
NoObservationLost ==
    (~ledger.fresh /\ \A t \in Threads : ledger.pc[t] = "idle") =>
        \A g \in Triggers :
            ledger.observed[g] > 0 => ledger.file[g].weight = 100 * ledger.observed[g]

\* a document holds a section with both a trigger and steps
HasTriggerAndSteps(content) ==
    \E i \in DOMAIN parse_markdown(content) :
        /\ parse_markdown(content)[i].trigger # NoText
        /\ parse_markdown(content)[i].steps # <<>>

\* C30: write_procedures raises a validation error and leaves PROCEDURES.md
\* as it was for every document that is neither effectively empty nor holds a
\* section with both a trigger and steps
InvalidDocumentRejected ==
    [][(doc'.writes # doc.writes
          /\ ~is_empty_procedure_document(doc.draft)
          /\ ~HasTriggerAndSteps(doc.draft)) =>
          /\ doc'.raised
          /\ doc'.file = doc.file]_vars

\* C31: for each run id the sequence numbers that emit assigns are 1, 2, 3,
\* ... in the order of assignment, with no gap and none given twice,
\* whatever the other run ids get and however the threads interleave
SeqPerRunIsGapless ==
    \A r \in 1..MaxRunIds :
        em.assigned[r] = [i \in 1..Len(em.assigned[r]) |-> i]

\* two threads inside emit at once, for the same run id, after an event of
\* the other run
SeqPerRunIsGaplessSeen ==
    /\ em.pc[1] = "record" /\ em.pc[2] = "record"
    /\ em.event[1] = <<1, 2>> /\ em.event[2] = <<1, 1>>
    /\ em.assigned[2] = <<1>>

\* C32: the recent-events buffer holds at most max_recent events, and they
\* are the max_recent events recorded last, in the order of recording
RecentIsNewest ==
    /\ Len(em.recent) <= em.max_recent
    /\ Len(em.recent) = IF Len(em.recorded) < em.max_recent THEN Len(em.recorded)
                        ELSE em.max_recent
    /\ \A i \in 1..Len(em.recent) :
          em.recent[i] = em.recorded[Len(em.recorded) - Len(em.recent) + i]

\* three events went into a buffer of two: the first one is gone
RecentIsNewestSeen ==
    /\ em.max_recent = 2
    /\ Len(em.recorded) = 3
    /\ em.recent = <<em.recorded[2], em.recorded[3]>>

\* C33: what a subscriber raises during emit does not reach the caller of
\* emit, does not keep the other subscribers from being notified, and does
\* not keep the event from being recorded and returned: emit raises only what
\* the write of the event file raises
SubscriberErrorIsSwallowed ==
    em.last.done =>
        /\ em.last.notified = Len(em.last.outcomes)
        /\ em.last.raised <=> em.last.persist = "failed"
        /\ em.last.recorded

\* the first of two subscribers raised: the second was notified and emit
\* returned the event
SubscriberErrorIsSwallowedSeen ==
    /\ em.last.done /\ em.last.outcomes = <<"raised", "ok">>
    /\ em.last.notified = 2
    /\ ~em.last.raised
    /\ em.last.recorded

\* C34: no execution deadlocks on the locks of the memory layer: no two
\* locks are gone for in opposite orders, no thread that holds the lock of a
\* session goes for the lock of another session, and no group of threads
\* waits, each for a lock that a thread of the group holds
LocksNeverDeadlock ==
    /\ \A p \in lk.orders : <<p[2], p[1]>> \notin lk.orders
    /\ \A W \in (SUBSET Threads) \ {{}} :
          \E t \in W : \/ lk.th[t].want = NoLock
                       \/ lk.owner[lk.th[t].want] \notin W

\* a thread that holds the lock of session 1 and the notes lock, while
\* another thread holds the lock of session 2 and waits for the notes lock
LocksNeverDeadlockSeen ==
    /\ lk.th[1].held = <<<<"session", 1>>, <<"notes", 0>>>>
    /\ lk.th[2].held = <<<<"session", 2>>>>
    /\ lk.th[2].want = <<"notes", 0>>
    /\ <<"session", "emitter">> \in lk.orders

\* stop_agent has returned for instance h: the instance was started, its
\* handle is out of the runtime map and no stop_agent is waiting for its process to be killed
StopReturned(h) ==
    /\ h \in DOMAIN inst
    /\ \A id \in Personas : agents[id] # h
    /\ ~(health.pc = "killing" /\ health.h = h)
    /\ ~(admin.pc = "killing" /\ admin.h = h)

\* C35: once stop_agent has returned for an agent instance no task begins to
\* execute on it: an assignment still queued on the gate of the removed handle
\* ends with an error and does not reach the backend
NoTaskAfterStop ==
    [][\A c \in Calls :
          calls[c].pc # "asking" /\ calls'[c].pc = "asking"
              => ~StopReturned(calls'[c].h)]_vars

StopAllStopsEverything ==
    [][admin.pc # "stopped_all" /\ admin'.pc = "stopped_all"
          => /\ \A id \in Personas : agents'[id] = NoInst
             /\ health'.pc = "cancelled"
             /\ \A h \in DOMAIN inst' : inst'[h].state = "stopped"]_vars

\* C38: a session file written through append_message and compaction holds
\* at most one compaction record, which is its first entry when there is one,
\* and after it the message entries in the order they were appended, after
\* any number of compactions
OneCompactionRecordFirst ==
    /\ \A i \in DOMAIN store.file : store.file[i].type = "compaction" => i = 1
    /\ \A i, j \in DOMAIN store.file :
          i < j /\ store.file[i].type = "message" /\ store.file[j].type = "message"
              => store.file[i].m < store.file[j].m

\* a session compacted three times or more, the last time by maybe_compact
\* called on it directly: its record comes first and two or more messages
\* follow
OneCompactionRecordFirstSeen ==
    /\ store.compactions >= 3
    /\ store.compacted
    /\ store.last = "compact"
    /\ Len(store.file) >= 3
    /\ store.file[1].type = "compaction"

\* C39: after any sequence of append_message, rewrite_session, read_messages
\* and message_count calls on a SessionStore, a failing rewrite_session among
\* them, message_count answers the number of message entries in the file
CountMatchesFile ==
    store.message_counts # NoCount => store.message_counts = Len(Messages(store.file))

\* a rewrite_session failed at the rename while the count was cached: the
\* file still holds its three messages
CountMatchesFileSeen ==
    /\ store.last = "rewrite"
    /\ store.rewrite = "replace"
    /\ store.message_counts = 3
    /\ Len(store.file) = 3

\* C40: with no write_procedures call, whenever a compaction or a periodic
\* extraction has finished, every entry of the ledger whose status is
\* permanent has a procedure of the same key in PROCEDURES.md, also when the
\* upsert fails or the process stops between the two writes
PermanentHasProcedure ==
    \A g \in Triggers :
        ledger.file[g].status = "permanent"
            => \E i \in DOMAIN parse_markdown(doc.file) :
                   parse_markdown(doc.file)[i].trigger = g

====
